---- MODULE Spec2Model ----
(***************************************************************************)
(* Sound Machine: the host trigger daemon (src/daemon/soundtrigger.py),    *)
(* its playback-completion watcher, the audio-player child processes, the  *)
(* named-pipe Event Channel to the LED daemon (src/daemon/led_daemon.py),  *)
(* and the Pico firmware (src/pico_firmware/main.py, main_watchdog.py).    *)
(*                                                                         *)
(* The specifications share the variables:                                 *)
(*   Spec            the trigger daemon: main read loop,                   *)
(*                   play_wav_interruptible, monitor_audio_playback,       *)
(*                   player processes, wall clock.                         *)
(*   SpecClock       the same daemon without the watcher, with fewer       *)
(*                   presses and clock steps of 1 and 199 ms, for the      *)
(*                   200 ms debounce window.                               *)
(*   SpecChannel     the Event Channel: writer threads started by          *)
(*                   send_button_event_to_led_daemon, the kernel FIFO, and *)
(*                   the LED daemon's event loop.                          *)
(*   SpecLed         the LED daemon alone: any line on the FIFO, the       *)
(*                   control thread and the LED output.                    *)
(*   SpecSerial      the serial connection loop of main: resolve, open,    *)
(*                   backoff sleeps, a device that comes and goes.         *)
(*   SpecSerialFair  SpecSerial with a main thread that keeps running.     *)
(*   SpecShutdown    the trigger daemon with SIGINT/SIGTERM and the exit   *)
(*                   path of main.                                         *)
(*   SpecReload      the main loop and reload_config of the watcher thread.*)
(*   SpecPrune       the trigger daemon with pauses of more than 60 s.     *)
(*   SpecMain        the whole main loop: connection loop, presses,        *)
(*                   exceptions at every level, signals.                   *)
(*   SpecRestart     the Event Channel over exits and restarts of the LED  *)
(*                   daemon.                                               *)
(*   SpecResolve     resolve_serial_port over the device nodes of /dev.    *)
(*   SpecFirmware    the scan loop of the Pico firmware (main.py and       *)
(*                   main_watchdog.py), tick counter with wrap.            *)
(*   SpecHostLine    _handle_line of the firmware over host lines.         *)
(*   SpecBlink       _blink_worker beside the command handler.             *)
(*   SpecBlinkFair   SpecBlink with a blink thread that keeps running.     *)
(*   SpecLine        the main loop over the text of serial lines: decode,  *)
(*                   PRESS_RE, int().                                      *)
(*   SpecWire        the serial line character by character, readline()    *)
(*                   with its 0.5 s timeout.                               *)
(*   SpecVersion     press handling beside reload_config, with the loads   *)
(*                   of the configuration numbered.                        *)
(*   SpecReloadFail  the same with reloads that fail.                      *)
(*   SpecTable       the trigger daemon started with 19 entries in the     *)
(*                   debounce table, so that the table is pruned.          *)
(*   SpecInterrupted the trigger daemon with players that end only by      *)
(*                   interruption.                                         *)
(*   SpecStop        the trigger daemon with threads that keep running and *)
(*                   players that come to their end.                       *)
(* Assumed of the platform: SIGKILL ends a player within the 0.5 s wait;   *)
(* the LED daemon's exists()/mkfifo() pair is one step.                    *)
(***************************************************************************)
EXTENDS Integers, Sequences, FiniteSets, TLC

(***************************************************************************)
(* Bounds of the model.                                                    *)
(***************************************************************************)
MaxPresses == 3        \* Spec: accepted, mapped presses handled in one run
MaxTicks == 2          \* Spec: P lines that arrive later than the line before
ClockPresses == 1      \* SpecClock: accepted, mapped presses
ClockTicks == 2        \* SpecClock: P lines that arrive later than the one before
MaxMsgs == 2           \* SpecChannel: notifications emitted in one run
MaxLineLen == 2        \* SpecLed: characters of a line before its newline
MaxFails == 7          \* SpecSerial: consecutive connect failures
MaxScans == 4          \* SpecFirmware: passes of the scan loop
MaxCycles == 2            \* SpecRestart: exits of the LED daemon
MaxIdles == 1          \* SpecFirmware: long idle periods
LinePresses == 2       \* SpecLine: accepted mapped presses in one run
MaxSent == 2           \* SpecWire: P lines the firmware writes in one run
MaxLoads == 2          \* SpecVersion: reloads of mappings.json in one run
TablePresses == 1      \* SpecTable: accepted mapped presses
TableTicks == 2        \* SpecTable: P lines that arrive later than the one before

(***************************************************************************)
(* Program constants and the configuration the daemon was started with.    *)
(***************************************************************************)
debounce_ms == 200     \* soundtrigger.py:265
PruneAgeMs == 60000    \* soundtrigger.py:272
PruneThreshold == 20   \* soundtrigger.py:419
BackoffStart == 32     \* soundtrigger.py:362 and 388: 0.5 s, in 1/64 s
BackoffCap == 320      \* soundtrigger.py:382: 5.0 s, in 1/64 s

Buttons == {1, 2, 3}                       \* ids on the serial line
ConfigButtons == [b \in {1, 2} |-> b]      \* profile "buttons": id -> wav file
EditedButtons == [b \in {1, 2, 3} |-> IF b = 1 THEN 0 ELSE 3]  \* after an edit
ConfigFiles == {ConfigButtons, EditedButtons}   \* contents of mappings.json
Now0 == 1000                               \* time.time()*1000 at start-up
CoarseSteps == {100}                       \* Spec: ms elapsed between two P lines
FineSteps == {1, 199}                      \* SpecClock: the same, around the window

None == 0              \* Python None for a Popen handle / button
NotSignaled == -1      \* last_signaled_process_id = None
Procs == 1..MaxPresses \* Popen objects the daemon can create in one run

VARIABLES
    \* --- trigger daemon, main thread (soundtrigger.py main) ---
    pc,                       \* position of the main thread
    current_process,          \* the Playback Handle (None or a Popen)
    current_button,
    last_press_ts,            \* the Debounce Table: button -> ms
    current_button_to_wav,    \* the mapping table of the active profile
    btn_id, old, process, ret,\* locals of the press being handled
    npress,                   \* accepted mapped presses so far (bounded)
    verdict, line_btn,        \* outcome and button of the last P line read
    \* --- completion watcher thread (monitor_audio_playback) ---
    mon_pc,
    last_signaled_process_id,
    \* --- operating system ---
    proc,                     \* Popen object -> "unborn"|"running"|"exited"
    objid,                    \* Popen object -> id(object)
    now, ticks,               \* wall clock in ms, number of advances
    \* --- observations ---
    emitted,                  \* notifications handed to the Event Channel
    accepted_ts,              \* button -> time of its last accepted press
    completionStops,          \* stops emitted since the tracked process
                              \*   was first seen tracked and exited
    \* --- Event Channel: /tmp/sound_led_events and its two ends ---
    fifo,                     \* what the path names: "absent"|"fifo"|"file"
    pipe,                     \* kernel buffer of the FIFO: notification numbers
    wst,                      \* writer thread of the i-th notification
    leaked,                   \* a write end was left open (os.close skipped)
    led_pc,                   \* position of the LED daemon's main()
    led_state,                \* LEDController.state
    delivered,                \* notification numbers read by the LED daemon
    reader_at_emit,           \* i-th notification: reader attached when emitted
    absent_seen,              \* notifications whose thread found no FIFO path
    held,                     \* notifications whose thread waited for a reader
    \* --- LED daemon: control thread and the line just handled ---
    ctl_pc,                   \* position of LEDController._run_control_loop
    led_out,                  \* last output of the control thread
    led_line,                 \* the line readline() returned last
    led_last,                 \* <<v>>: last valid integer line of this run
    press_pending,            \* a press was read while Active and the control
                              \*   thread has made no output since
    \* --- trigger daemon: serial connection loop and shutdown ---
    current_port,             \* resolved device path, or "none"
    backoff_s,                \* in 1/64 s
    stop,                     \* set by handle_sig
    dev,                      \* the serial device: "absent"|"unopenable"|"ok"
    fails,                    \* connect failures since the last successful open
    sleep_for,                \* duration of the sleep in progress, in 1/64 s
    sleeps_since_ok,          \* backoff sleeps ended with the device back, in this disconnection
    lost_at,                  \* <<presses accepted>> when the connection was last torn down
    \* --- trigger daemon: config watcher thread (reload_config) ---
    cfg_pc,
    config_lock,              \* "free" or the holder
    new_button_to_wav,        \* local of build_button_map while it runs
    cfg_todo,                 \* buttons.items() still to visit
    \* --- resolve_serial_port: the device nodes it looks at, its result ---
    fs,
    resolved,
    \* --- Pico firmware: the scan loop (pico_firmware/main.py) ---
    firmware,                 \* "main" | "watchdog": which file runs
    pin,                      \* button -> level of its GPIO (0 = pressed)
    last_state,               \* _last_state
    last_time_ms,             \* _last_time_ms
    fw_time,                  \* ms since boot at the head of the last pass
    scan_obs,                 \* observations of the scan loop
    \* --- Pico firmware: host commands and the blink thread ---
    led_overrides,            \* _led_overrides: "None" | "On" | "Off"
    host_line,                \* <<line>>: the line _handle_line got last
    fw_out,                   \* what handling that line wrote to stdout
    leds,                     \* LED button -> level of its GPIO
    blink_pc,                 \* position of _blink_worker
    blink_todo,               \* LEDs the for loop has still to visit
    blink_btn,                \* btn_id of the for loop
    override,                 \* local of _blink_worker
    \* --- restarts of the LED daemon (observation) ---
    cycle,                    \* exits so far, whether the last event was a
                              \* start after an exit, notifications since
    \* --- the serial line between firmware and trigger daemon ---
    flight,                   \* characters written by the firmware that have
                              \*   not reached the host yet
    wire,                     \* characters received by the host, not yet read
    ser_line,                 \* <<line>>: what readline() returned last
    sent,                     \* button ids of the P lines written, in order
    \* --- trigger daemon: the configuration objects ---
    current_config,           \* number of the load that made the current
                              \*   config, device config and mapping table
    wav_from,                 \* load that wav_path of this press came from
    device_from               \* load that current_aplay_device came from

daemonVars == <<pc, current_process, current_button, last_press_ts,
                current_button_to_wav, btn_id, old, process, ret, npress,
                verdict, line_btn, mon_pc, last_signaled_process_id, proc,
                objid, now, ticks, emitted, accepted_ts, completionStops>>

\* the LED daemon's control thread and line handling
ledVars == <<ctl_pc, led_out, led_line, led_last, press_pending>>

\* the serial connection loop, the stop flag and the config watcher
connVars == <<current_port, backoff_s, stop, dev, fails, sleep_for,
              sleeps_since_ok, lost_at>>
cfgVars == <<cfg_pc, config_lock, new_button_to_wav, cfg_todo>>

\* the FIFO, its writer threads and the LED daemon
ipcVars == <<fifo, pipe, wst, leaked, led_pc, led_state, delivered,
             reader_at_emit, absent_seen, held, ledVars>>

\* everything the handling of a press leaves alone
\* the file system seen by resolve_serial_port and its result
resolveVars == <<fs, resolved>>

\* the firmware's scan loop
scanVars == <<firmware, pin, last_state, last_time_ms, fw_time, scan_obs>>

\* the firmware's LED side: command handler and blink thread
cmdVars == <<led_overrides, host_line, fw_out>>
blinkVars == <<leds, blink_pc, blink_todo, blink_btn, override>>

\* the observation of the LED daemon's restarts
cycleVars == <<cycle>>

\* the serial line
serVars == <<flight, wire, ser_line, sent>>

\* variables of single parts of the program that the others leave alone
\* which load of mappings.json the configuration in use came from
verVars == <<current_config, wav_from, device_from>>

lateVars == <<serVars, verVars>>

\* what neither daemon touches
otherVars == <<resolveVars, scanVars, cmdVars, blinkVars, cycleVars, lateVars>>

chanVars == <<ipcVars, connVars, cfgVars, otherVars>>

\* the daemon's variables the Event Channel's steps leave alone
hostFrame == <<pc, current_process, current_button, last_press_ts,
               current_button_to_wav, btn_id, old, process, ret, npress,
               verdict, line_btn, mon_pc, last_signaled_process_id, proc,
               objid, now, ticks, accepted_ts, completionStops,
               connVars, cfgVars, resolveVars, scanVars, cmdVars, blinkVars,
               lateVars>>
hostVars == <<hostFrame, cycleVars>>

vars == <<daemonVars, chanVars>>

(***************************************************************************)
(* Helpers                                                                 *)
(***************************************************************************)
\* dict.get(k, default)
Get(d, k, default) == IF k \in DOMAIN d THEN d[k] ELSE default

\* d[k] = v on a dict
Put(d, k, v) == [x \in DOMAIN d \cup {k} |-> IF x = k THEN v ELSE d[x]]

\* build_button_map: keys with a non-empty file name
build_button_map(buttons) ==
    [b \in {k \in DOMAIN buttons : buttons[k] # None} |-> buttons[b]]

\* a cleanup that drops entries older than 50 ms
cleanup_debounce_early(table, current_time) ==
    [k \in {x \in DOMAIN table : ~((current_time - table[x]) > 50)}
        |-> table[k]]

\* cleanup_debounce_dict: drop entries older than 60 s
cleanup_debounce_dict(table, current_time) ==
    [k \in {x \in DOMAIN table : ~((current_time - table[x]) > PruneAgeMs)}
        |-> table[k]]

\* Popen.poll() is None
Running(p) == p # None /\ proc[p] = "running"
RunningProcs == {p \in Procs : proc[p] = "running"}

\* id(x) for a handle value
IdOf(h) == IF h = None THEN 0 ELSE objid[h]

\* the completion of the tracked process is visible to the watcher
TrackedDone(cp, pr) == cp # None /\ pr[cp] = "exited"

(***************************************************************************)
(* Initial state: main() after start-up, serial port open, nothing playing.*)
(***************************************************************************)
DaemonRest ==
    /\ current_process = None
    /\ current_button = None
    /\ btn_id = None /\ old = None /\ process = None /\ ret = None
    /\ npress = 0
    /\ verdict = "none" /\ line_btn = None
    /\ mon_pc = "test"
    /\ last_signaled_process_id = NotSignaled
    /\ proc = [p \in Procs |-> "unborn"]
    /\ objid = [p \in Procs |-> 0]
    /\ now = Now0 /\ ticks = 0
    /\ emitted = <<>>
    /\ completionStops = 0

\* line 263: last_press_ts = {}
DaemonLocals ==
    /\ DaemonRest
    /\ last_press_ts = <<>>
    /\ accepted_ts = <<>>

\* lines 249-251: the table built from the active profile at start-up
DaemonState ==
    /\ DaemonLocals
    /\ current_button_to_wav = build_button_map(ConfigButtons)

DaemonInit == pc = "read" /\ DaemonState

\* The Event Channel before either daemon has touched it: the LED daemon is
\* not running and nothing exists at the path.
ChannelInit ==
    /\ fifo = "absent"
    /\ pipe = <<>>
    /\ wst = <<>>
    /\ leaked = FALSE
    /\ led_pc = "down"
    /\ led_state = "idle"
    /\ delivered = <<>>
    /\ reader_at_emit = <<>>
    /\ absent_seen = {}
    /\ held = {}
    /\ ctl_pc = "down"
    /\ led_out = "none"
    /\ led_line = <<>>
    /\ led_last = <<>>
    /\ press_pending = FALSE

\* main() at "Serial open; trigger loop ready.": the port is resolved and
\* open, the backoff is at its start value, the config watcher is idle
ConnState ==
    /\ backoff_s = BackoffStart
    /\ stop = FALSE
    /\ dev = "ok"
    /\ fails = 0
    /\ sleep_for = 0
    /\ sleeps_since_ok = 0
    /\ lost_at = <<>>
    /\ cfg_pc = "watch"
    /\ config_lock = "free"
    /\ new_button_to_wav = <<>>
    /\ cfg_todo = {}

ConnInit == current_port = "acm" /\ ConnState

\* resolve_serial_port has not been called; no device node exists
NoNodes == [preferred |-> "no", by_live |-> {}, by_dead |-> {},
            acm_live |-> {}, acm_gone |-> {}]
NotCalled == [kind |-> "pending", name |-> <<>>]
ResolverIdle == fs = NoNodes /\ resolved = NotCalled

\* Pico firmware after its module-level code: main.py:46-47
FwButtons == {1, 2}
NoScanYet == [emit_at |-> [b \in FwButtons |-> <<>>],
              dropped |-> [b \in FwButtons |-> FALSE],
              fell |-> [b \in FwButtons |-> FALSE],
              idle_seen |-> [b \in FwButtons |-> FALSE],
              wrote |-> {}, scans |-> 0, idles |-> 0]
ScanState ==
    /\ last_state = [b \in FwButtons |-> 1]
    /\ last_time_ms = [b \in FwButtons |-> 0]
    /\ fw_time = 0
FirmwareInit ==
    /\ firmware = "main"
    /\ pin = [b \in FwButtons |-> 1]
    /\ ScanState
    /\ scan_obs = NoScanYet

\* main.py:37-43 and 67: LEDs off, no override, the blink thread started
LedButtons == {1, 7}
LedInit ==
    /\ led_overrides = [b \in LedButtons |-> "None"]
    /\ host_line = <<>>
    /\ fw_out = "none"
    /\ leds = [b \in LedButtons |-> 0]
    /\ blink_pc = "for"
    /\ blink_todo = LedButtons
    /\ blink_btn = 0
    /\ override = "None"

\* the LED daemon has not run yet
NoCycle == [exits |-> 0, since_restart |-> FALSE, flagged |-> {}]
CycleInit == cycle = NoCycle

\* nothing sent on the serial line, nothing read
SerInit ==
    /\ flight = <<>>
    /\ wire = <<>>
    /\ ser_line = <<>>
    /\ sent = <<>>

\* lines 218-221: the configuration loaded at start-up is load 0
VerInit ==
    /\ current_config = 0
    /\ wav_from = 0
    /\ device_from = 0

LateInit == SerInit /\ VerInit

OtherInit == ResolverIdle /\ FirmwareInit /\ LedInit /\ CycleInit /\ LateInit

Init == DaemonInit /\ ChannelInit /\ ConnInit /\ OtherInit

\* main() on its first arrival at "while not stop": no port resolved yet
SerialInit ==
    /\ pc = "resolve"
    /\ current_port = "none"
    /\ DaemonState /\ ChannelInit /\ ConnState /\ OtherInit

(***************************************************************************)
(* Observation: the number of stops emitted for the completion of the      *)
(* tracked process, counted from the moment the handle holds a process     *)
(* that has exited until the handle changes.                               *)
(***************************************************************************)
CompletionObs(stopSent) ==
    completionStops' =
        IF TrackedDone(current_process', proc')
              /\ TrackedDone(current_process, proc)
              /\ current_process' = current_process
        THEN IF stopSent /\ completionStops < 2
             THEN completionStops + 1 ELSE completionStops
        ELSE 0

(***************************************************************************)
(* Main thread: one P line (soundtrigger.py:391-427).                      *)
(***************************************************************************)
\* line 414: the debounce test
DebouncedOff(last_ms, now_ms) == (now_ms - last_ms) <= debounce_ms
Debounced(last_ms, now_ms) == (now_ms - last_ms) < debounce_ms

\* line 415: a press inside the window: continue
RejectedRecords(b, now_ms) ==
    /\ verdict' = "debounced"
    /\ last_press_ts' = Put(last_press_ts, b, now_ms)
    /\ UNCHANGED <<pc, accepted_ts, btn_id, old, process, ret, npress,
                   current_process, current_button, proc, emitted>>
Rejected(b, now_ms) ==
    /\ verdict' = "debounced"
    /\ UNCHANGED <<pc, last_press_ts, accepted_ts, btn_id, old, process, ret,
                   npress, current_process, current_button, proc, emitted>>

\* lines 416-420: record the press, prune a table of more than 20 entries
Record(table, b, now_ms) ==
    LET table1 == Put(table, b, now_ms)
    IN  IF Cardinality(DOMAIN table1) > PruneThreshold
        THEN cleanup_debounce_dict(table1, now_ms)
        ELSE table1

\* lines 425-427: no mapping: log and continue
UnmappedNotifies(b, now_ms) ==
    /\ verdict' = "unmapped"
    /\ last_press_ts' = Record(last_press_ts, b, now_ms)
    /\ accepted_ts' = Put(accepted_ts, b, now_ms)
    /\ emitted' = Append(emitted, b)
    /\ UNCHANGED <<pc, btn_id, old, process, ret, npress, current_process,
                   current_button, proc>>
Unmapped(b, now_ms) ==
    /\ verdict' = "unmapped"
    /\ last_press_ts' = Record(last_press_ts, b, now_ms)
    /\ accepted_ts' = Put(accepted_ts, b, now_ms)
    /\ UNCHANGED <<pc, btn_id, old, process, ret, npress, current_process,
                   current_button, proc, emitted>>

\* lines 429-436: enter play_wav_interruptible(wav, device, current_process, b)
Accepted(b, now_ms, maxPresses) ==
    /\ npress < maxPresses
    /\ verdict' = "accepted"
    /\ last_press_ts' = Record(last_press_ts, b, now_ms)
    /\ accepted_ts' = Put(accepted_ts, b, now_ms)
    /\ npress' = npress + 1
    /\ btn_id' = b
    /\ old' = current_process
    /\ process' = None
    /\ ret' = None
    /\ pc' = "checks"
    /\ UNCHANGED <<current_process, current_button, proc, emitted>>

ReadLineMain(b, elapsed, maxPresses, maxTicks) ==
    /\ pc = "read"
    /\ ~stop                        \* line 389: while not stop
    /\ config_lock = "free"         \* line 423: with config_lock
    /\ elapsed = 0 \/ ticks < maxTicks
    /\ now' = now + elapsed          \* now_ms = time.time() * 1000.0
    /\ ticks' = IF elapsed = 0 THEN ticks ELSE ticks + 1
    /\ line_btn' = b
    /\ LET now_ms == now + elapsed
           last_ms == Get(last_press_ts, b, 0)
           wav_path == Get(current_button_to_wav, b, None)
       IN  IF Debounced(last_ms, now_ms) THEN Rejected(b, now_ms)
           ELSE IF wav_path = None THEN Unmapped(b, now_ms)
           ELSE Accepted(b, now_ms, maxPresses)
    /\ UNCHANGED <<current_button_to_wav, mon_pc, last_signaled_process_id,
                   objid>>
    /\ CompletionObs(FALSE)
ReadLine(b, elapsed, maxPresses, maxTicks) ==
    /\ ReadLineMain(b, elapsed, maxPresses, maxTicks)
    /\ UNCHANGED chanVars

(***************************************************************************)
(* play_wav_interruptible (soundtrigger.py:159-210)                        *)
(***************************************************************************)
\* lines 161-168: the file-existence and audio-device checks
PlayChecksMain(wav_exists, device_ok) ==
    /\ pc = "checks"
    /\ IF wav_exists /\ device_ok
       THEN pc' = "interrupt"
       ELSE /\ ret' = None        \* return None, old playback untouched
            /\ pc' = "assign"
    /\ IF wav_exists /\ device_ok THEN UNCHANGED ret ELSE TRUE
    /\ UNCHANGED <<current_process, current_button, last_press_ts,
                   current_button_to_wav, btn_id, old, process, npress,
                   verdict, line_btn, mon_pc, last_signaled_process_id, proc, objid,
                   now, ticks, emitted, accepted_ts, completionStops>>
PlayChecks(wav_exists, device_ok) ==
    /\ PlayChecksMain(wav_exists, device_ok)
    /\ UNCHANGED chanVars

\* lines 171-188: if the old process still runs: terminate() and
\* wait(timeout=0.5); on TimeoutExpired kill() and wait(timeout=0.5).  The
\* old process has exited when the block is left: SIGKILL cannot be ignored.
Interrupt ==
    /\ UNCHANGED chanVars
    /\ pc = "interrupt"
    /\ proc' = IF Running(old) THEN [proc EXCEPT ![old] = "exited"] ELSE proc
    /\ pc' = "spawn"
    /\ UNCHANGED <<current_process, current_button, last_press_ts,
                   current_button_to_wav, btn_id, old, process, ret, npress,
                   verdict, line_btn, mon_pc, last_signaled_process_id, objid,
                   now, ticks, emitted, accepted_ts>>
    /\ CompletionObs(FALSE)

\* The first Popen object not yet created
NextProc == CHOOSE p \in Procs : proc[p] = "unborn" /\ \A q \in Procs : q < p => proc[q] # "unborn"

\* ids a new Popen object can get: a fresh one, or the id of an object
\* that has been freed (exited and no longer referenced)
FreeIds(p) == {p} \cup {objid[q] : q \in {x \in Procs : proc[x] = "exited" /\ x # current_process}}

\* lines 198-200 and 208-210: Popen either raises or creates the child
Spawn(ok, newid) ==
    /\ UNCHANGED chanVars
    /\ pc = "spawn"
    /\ IF ok
       THEN /\ newid \in FreeIds(NextProc)
            /\ proc' = [proc EXCEPT ![NextProc] = "running"]
            /\ objid' = [objid EXCEPT ![NextProc] = newid]
            /\ process' = NextProc
            /\ pc' = "startcheck"
            /\ UNCHANGED ret
       ELSE /\ newid = 0
            /\ ret' = None
            /\ pc' = "assign"
            /\ UNCHANGED <<proc, objid, process>>
    /\ UNCHANGED <<current_process, current_button, last_press_ts,
                   current_button_to_wav, btn_id, old, npress,
                   verdict, line_btn, mon_pc, last_signaled_process_id,
                   now, ticks, emitted, accepted_ts, completionStops>>

\* lines 202-207 without the poll(): the process is returned as it is
StartCheckKeeps ==
    /\ UNCHANGED chanVars
    /\ pc = "startcheck"
    /\ ret' = process
    /\ pc' = "assign"
    /\ UNCHANGED <<current_process, current_button, last_press_ts,
                   current_button_to_wav, btn_id, old, process, npress,
                   verdict, line_btn, mon_pc, last_signaled_process_id, proc, objid,
                   now, ticks, emitted, accepted_ts, completionStops>>

\* lines 202-207: sleep(0.1), then return None if the child already exited
StartCheck ==
    /\ UNCHANGED chanVars
    /\ pc = "startcheck"
    /\ ret' = IF proc[process] = "running" THEN process ELSE None
    /\ pc' = "assign"
    /\ UNCHANGED <<current_process, current_button, last_press_ts,
                   current_button_to_wav, btn_id, old, process, npress,
                   verdict, line_btn, mon_pc, last_signaled_process_id, proc, objid,
                   now, ticks, emitted, accepted_ts, completionStops>>

(***************************************************************************)
(* Back in main (soundtrigger.py:436-438)                                  *)
(***************************************************************************)
\* current_process = play_wav_interruptible(...); current_button = btn_id
Assign ==
    /\ UNCHANGED chanVars
    /\ pc = "assign"
    /\ current_process' = ret
    /\ current_button' = btn_id
    /\ pc' = "notify"
    /\ UNCHANGED <<last_press_ts, current_button_to_wav, btn_id, old, process,
                   ret, npress, verdict, line_btn, mon_pc, last_signaled_process_id,
                   proc, objid, now, ticks, emitted, accepted_ts>>
    /\ CompletionObs(FALSE)

\* send_button_event_to_led_daemon(btn_id)
Notify ==
    /\ UNCHANGED chanVars
    /\ pc = "notify"
    /\ emitted' = Append(emitted, btn_id)
    /\ pc' = "read"
    /\ btn_id' = None /\ old' = None /\ process' = None /\ ret' = None
    /\ UNCHANGED <<current_process, current_button, last_press_ts,
                   current_button_to_wav, npress,
                   verdict, line_btn, mon_pc, last_signaled_process_id, proc, objid,
                   now, ticks, accepted_ts, completionStops>>

(***************************************************************************)
(* Completion watcher (soundtrigger.py:334-356).  Every read of the shared *)
(* current_process is a step of its own; the thread takes no lock.         *)
(***************************************************************************)
\* line 341, left operand: "current_process and ..."
MonitorTest ==
    /\ UNCHANGED chanVars
    /\ mon_pc = "test"
    /\ ~stop                        \* line 338: while not stop
    /\ mon_pc' = IF current_process # None THEN "poll" ELSE "reset"
    /\ UNCHANGED <<pc, current_process, current_button, last_press_ts,
                   current_button_to_wav, btn_id, old, process, ret, npress,
                   verdict, line_btn, last_signaled_process_id, proc, objid, now, ticks,
                   emitted, accepted_ts>>
    /\ CompletionObs(FALSE)

\* line 341, right operand: current_process.poll() is not None
\* (an AttributeError on None is caught at line 354: next pass)
MonitorPoll ==
    /\ UNCHANGED chanVars
    /\ mon_pc = "poll"
    /\ mon_pc' = IF current_process = None THEN "test"
                 ELSE IF proc[current_process] = "exited" THEN "signal"
                 ELSE "reset"
    /\ UNCHANGED <<pc, current_process, current_button, last_press_ts,
                   current_button_to_wav, btn_id, old, process, ret, npress,
                   verdict, line_btn, last_signaled_process_id, proc, objid, now, ticks,
                   emitted, accepted_ts>>
    /\ CompletionObs(FALSE)

\* lines 343-347: once per process id, send the stop signal
MonitorSignal ==
    /\ UNCHANGED chanVars
    /\ mon_pc = "signal"
    /\ mon_pc' = "test"
    /\ UNCHANGED <<pc, current_process, current_button, last_press_ts,
                   current_button_to_wav, btn_id, old, process, ret, npress,
                   verdict, line_btn, proc, objid, now, ticks, accepted_ts>>
    /\ LET current_process_id == IdOf(current_process)
       IN  IF last_signaled_process_id # current_process_id
           THEN /\ emitted' = Append(emitted, 0)
                /\ last_signaled_process_id' = current_process_id
                /\ CompletionObs(TRUE)
           ELSE /\ UNCHANGED <<emitted, last_signaled_process_id>>
                /\ CompletionObs(FALSE)

\* lines 348-352: running or None: reset the tracker if there is a process
MonitorReset ==
    /\ UNCHANGED chanVars
    /\ mon_pc = "reset"
    /\ last_signaled_process_id' =
          IF current_process # None THEN NotSignaled
          ELSE last_signaled_process_id
    /\ mon_pc' = "test"
    /\ UNCHANGED <<pc, current_process, current_button, last_press_ts,
                   current_button_to_wav, btn_id, old, process, ret, npress,
                   verdict, line_btn, proc, objid, now, ticks, emitted, accepted_ts>>
    /\ CompletionObs(FALSE)

(***************************************************************************)
(* Environment                                                             *)
(***************************************************************************)
\* a player finishes its file (or fails) on its own
ProcExit(p) ==
    /\ UNCHANGED chanVars
    /\ proc[p] = "running"
    /\ proc' = [proc EXCEPT ![p] = "exited"]
    /\ UNCHANGED <<pc, current_process, current_button, last_press_ts,
                   current_button_to_wav, btn_id, old, process, ret, npress,
                   verdict, line_btn, mon_pc, last_signaled_process_id, objid, now,
                   ticks, emitted, accepted_ts>>
    /\ CompletionObs(FALSE)

\* the main thread's handling of an accepted press
MainPress ==
    \/ \E e \in BOOLEAN, d \in BOOLEAN : PlayChecks(e, d)
    \/ Interrupt
    \/ \E ok \in BOOLEAN, i \in 0..MaxPresses : Spawn(ok, i)
    \/ StartCheck
    \/ Assign
    \/ Notify

\* every step except the arrival of a P line
Playback ==
    \/ \E e \in BOOLEAN, d \in BOOLEAN : PlayChecks(e, d)
    \/ Interrupt
    \/ \E ok \in BOOLEAN, i \in 0..MaxPresses : Spawn(ok, i)
    \/ StartCheck
    \/ Assign
    \/ Notify
    \/ MonitorTest
    \/ MonitorPoll
    \/ MonitorSignal
    \/ MonitorReset
    \/ \E p \in Procs : ProcExit(p)

Next ==
    \/ \E b \in Buttons, d \in {0} \cup CoarseSteps :
          ReadLine(b, d, MaxPresses, MaxTicks)
    \/ Playback

Spec == Init /\ [][Next]_vars

\* the watcher thread (lines 338-356)
Monitor == MonitorTest \/ MonitorPoll \/ MonitorSignal \/ MonitorReset

\* the daemon with fewer presses; both threads keep running (the watcher
\* sleeps 0.1 s per pass, the main thread's steps return) and every player
\* comes to its end
NextStop ==
    \/ \E b \in Buttons, d \in {0} \cup CoarseSteps :
          ReadLine(b, d, ClockPresses, ClockTicks)
    \/ Playback

\* the daemon with players that run on: a player exits only when a later
\* press interrupts it (lines 171-188)
NextInterrupted ==
    \/ \E b \in Buttons, d \in {0} \cup CoarseSteps :
          ReadLine(b, d, MaxPresses, MaxTicks)
    \/ MainPress
    \/ Monitor

SpecInterrupted == Init /\ [][NextInterrupted]_vars

SpecStop ==
    /\ Init /\ [][NextStop]_vars
    /\ WF_vars(MainPress)
    /\ WF_vars(Monitor)
    /\ \A p \in Procs : WF_vars(ProcExit(p))

\* the same daemon, fewer presses, a clock fine enough for the debounce
\* window; the completion watcher, which takes no part in the handling of a
\* P line, is left out
NextClock ==
    \/ \E b \in Buttons, d \in {0} \cup FineSteps :
          ReadLine(b, d, ClockPresses, ClockTicks)
    \/ MainPress
    \/ \E p \in Procs : ProcExit(p)

SpecClock == Init /\ [][NextClock]_vars

\* the same daemon with pauses longer than the retention of the debounce
\* table between two P lines; the monitor thread is left out
LongSteps == {100, PruneAgeMs + 1}
NextPrune ==
    \/ \E b \in Buttons, d \in {0} \cup LongSteps :
          ReadLine(b, d, MaxPresses, MaxTicks)
    \/ MainPress

SpecPrune == Init /\ [][NextPrune]_vars

\* the same daemon after presses of the 19 buttons 10..28, one per ms, the
\* last of them just before or 300 ms before the start of the run;
\* accepted_ts is the table as it would be without cleanup_debounce_dict
Fillers == 10..28
FillerEnds == {Now0 - 300, Now0}
FilledTable(t) == [k \in Fillers |-> t - (28 - k)]
TableButtons == {1, 3, 10, 28}

TableInit ==
    /\ pc = "read"
    /\ DaemonRest
    /\ \E t \in FillerEnds :
          /\ last_press_ts = FilledTable(t)
          /\ accepted_ts = FilledTable(t)
    /\ current_button_to_wav = build_button_map(ConfigButtons)
    /\ ChannelInit /\ ConnInit /\ OtherInit

NextTable ==
    \/ \E b \in TableButtons, d \in {0} \cup LongSteps :
          ReadLine(b, d, TablePresses, TableTicks)
    \/ MainPress

SpecTable == TableInit /\ [][NextTable]_vars

(***************************************************************************)
(* Shutdown by SIGINT or SIGTERM (soundtrigger.py:276-289, 461-468).       *)
(***************************************************************************)
\* handle_sig runs in the main thread, between any two of its steps:
\* stop = True; a running process named by the handle gets terminate(),
\* wait(timeout=1.0) and, on TimeoutExpired, kill()
HandleSig ==
    /\ pc # "done"
    /\ ~stop
    /\ stop' = TRUE
    /\ proc' = IF Running(current_process)
               THEN [proc EXCEPT ![current_process] = "exited"]
               ELSE proc
    /\ UNCHANGED <<pc, current_process, current_button, last_press_ts,
                   current_button_to_wav, btn_id, old, process, ret, npress,
                   verdict, line_btn, mon_pc, last_signaled_process_id, objid,
                   now, ticks, emitted, accepted_ts>>
    /\ CompletionObs(FALSE)
    /\ UNCHANGED <<current_port, backoff_s, dev, fails, sleep_for,
                   sleeps_since_ok, lost_at>>
    /\ UNCHANGED <<ipcVars, cfgVars, otherVars>>

\* "while not stop" fails at lines 389 and 375; lines 461-468: a running
\* process named by the handle gets terminate(), wait(timeout=1.0) and, on
\* TimeoutExpired, kill(); return 0
ShutDown ==
    /\ pc = "read"
    /\ stop
    /\ proc' = IF Running(current_process)
               THEN [proc EXCEPT ![current_process] = "exited"]
               ELSE proc
    /\ pc' = "done"
    /\ UNCHANGED <<current_process, current_button, last_press_ts,
                   current_button_to_wav, btn_id, old, process, ret, npress,
                   verdict, line_btn, mon_pc, last_signaled_process_id, objid,
                   now, ticks, emitted, accepted_ts>>
    /\ CompletionObs(FALSE)
    /\ UNCHANGED chanVars

NextShutdown ==
    \/ \E b \in Buttons : ReadLine(b, 0, MaxPresses, 0)
    \/ Playback
    \/ HandleSig
    \/ ShutDown

SpecShutdown == Init /\ [][NextShutdown]_vars

(***************************************************************************)
(* Configuration reload (soundtrigger.py:223-240, 292-308): the watcher    *)
(* thread calls reload_config when the file's mtime has changed.  The main *)
(* thread's steps before it takes config_lock at line 423 touch only state *)
(* the watcher never reads, so ReadLine is taken as one step that needs    *)
(* the lock.                                                               *)
(***************************************************************************)
\* what reload_config leaves alone
reloadKeeps == <<pc, current_process, current_button, last_press_ts, btn_id,
                 old, process, ret, npress, verdict, line_btn, mon_pc,
                 last_signaled_process_id, proc, objid, now, ticks, emitted,
                 accepted_ts, completionStops>>
reloadFrame == <<reloadKeeps, ipcVars, connVars, otherVars>>

\* the "buttons" items build_button_map iterates over
Items(buttons) == {<<k, buttons[k]>> : k \in DOMAIN buttons}

\* lines 227-231: take the lock, load the file, start build_button_map with
\* an empty local dict; a file that does not parse or names no profile
\* raises: the lock is released and the exception printed (239-240)
ReloadBegin(parses, buttons) ==
    /\ cfg_pc = "watch"
    /\ ~stop
    /\ config_lock = "free"
    /\ IF parses
       THEN /\ config_lock' = "reload"
            /\ new_button_to_wav' = <<>>
            /\ cfg_todo' = Items(buttons)
            /\ cfg_pc' = "build"
       ELSE UNCHANGED cfgVars
    /\ UNCHANGED <<current_button_to_wav, reloadFrame>>

\* lines 56-63: one pass of the loop of build_button_map, the lock released
\* and the table published after every entry
ReloadBuildPublishes ==
    /\ cfg_pc = "build"
    /\ \E kv \in cfg_todo :
          /\ cfg_todo' = cfg_todo \ {kv}
          /\ new_button_to_wav' =
                IF kv[2] = None THEN new_button_to_wav
                ELSE Put(new_button_to_wav, kv[1], kv[2])
    /\ current_button_to_wav' = new_button_to_wav'
    /\ config_lock' = "free"
    /\ UNCHANGED <<cfg_pc, reloadFrame>>
\* lines 56-63: one pass of the loop of build_button_map, on its local dict
ReloadBuild ==
    /\ cfg_pc = "build"
    /\ \E kv \in cfg_todo :
          /\ cfg_todo' = cfg_todo \ {kv}
          /\ new_button_to_wav' =
                IF kv[2] = None THEN new_button_to_wav
                ELSE Put(new_button_to_wav, kv[1], kv[2])
    /\ UNCHANGED <<cfg_pc, config_lock, current_button_to_wav, reloadFrame>>

\* lines 233-236: rebind current_button_to_wav; leave the with block
ReloadSwaps ==
    /\ cfg_pc = "build"
    /\ cfg_todo = {}
    /\ current_button_to_wav' = new_button_to_wav
    /\ new_button_to_wav' = <<>>
    /\ config_lock' = "free"
    /\ cfg_pc' = "watch"
    /\ UNCHANGED <<cfg_todo, reloadKeeps>>
ReloadSwap ==
    /\ ReloadSwaps
    /\ UNCHANGED <<ipcVars, connVars, otherVars>>

NextReload ==
    \/ \E b \in Buttons : ReadLine(b, 0, MaxPresses, 0)
    \/ MainPress
    \/ \E p \in Procs : ProcExit(p)
    \/ \E parses \in BOOLEAN, c \in ConfigFiles : ReloadBegin(parses, c)
    \/ ReloadBuild
    \/ ReloadSwap

SpecReload == Init /\ [][NextReload]_vars

(***************************************************************************)
(* The configuration a press uses (soundtrigger.py:423-424, 432-433,       *)
(* 233-236): current_config, current_device_cfg and current_button_to_wav  *)
(* are rebound together by reload_config; the main thread reads the table  *)
(* and the device in two with-blocks.  Loads are numbered.                 *)
(***************************************************************************)
verFrame == <<ipcVars, connVars, resolveVars, scanVars, cmdVars, blinkVars,
              cycleVars, serVars>>

\* lines 411-427; lines 423-424 read the table of the current load
LookupWav(b) ==
    /\ ReadLineMain(b, 0, MaxPresses, 0)
    /\ wav_from' = IF verdict' = "accepted" THEN current_config ELSE wav_from
    /\ UNCHANGED <<current_config, device_from, cfgVars, verFrame>>

\* lines 432-433 and 436, 161-168: read the device of the current load
\* under the lock, then the checks of play_wav_interruptible
ReadDevice(wav_exists, device_ok) ==
    /\ config_lock = "free"
    /\ PlayChecksMain(wav_exists, device_ok)
    /\ device_from' = current_config
    /\ UNCHANGED <<current_config, wav_from, cfgVars, verFrame>>

\* lines 423-433 with the table and the device read in one with-block
ReadDeviceWithWav(wav_exists, device_ok) ==
    /\ config_lock = "free"
    /\ PlayChecksMain(wav_exists, device_ok)
    /\ device_from' = wav_from
    /\ UNCHANGED <<current_config, wav_from, cfgVars, verFrame>>

\* lines 227-231 of a further reload
LoadAgain(parses, buttons) ==
    /\ current_config < MaxLoads
    /\ ReloadBegin(parses, buttons)

\* lines 233-236: the four names are rebound under the lock
SwapConfig ==
    /\ ReloadSwaps
    /\ current_config' = current_config + 1
    /\ UNCHANGED <<wav_from, device_from, verFrame, connVars>>

NextVersion ==
    \/ \E b \in Buttons : LookupWav(b)
    \/ \E e \in BOOLEAN, d \in BOOLEAN : ReadDevice(e, d)
    \/ Interrupt
    \/ \E ok \in BOOLEAN, i \in 0..MaxPresses : Spawn(ok, i)
    \/ StartCheck
    \/ Assign
    \/ Notify
    \/ \E parses \in BOOLEAN, c \in ConfigFiles : LoadAgain(parses, c)
    \/ ReloadBuild
    \/ SwapConfig

SpecVersion == Init /\ [][NextVersion]_vars

(***************************************************************************)
(* reload_config with its failures (soundtrigger.py:223-240, 38-48): the   *)
(* lock is taken first; load_config raises on a file that cannot be opened *)
(* or is not JSON, get_active_profile raises KeyError on a missing         *)
(* profile; the with-block releases the lock and line 240 prints.          *)
(***************************************************************************)
LoadOutcomes == {"ok", "unreadable", "invalid", "noprofile"}

\* line 227: with config_lock
ReloadTake ==
    /\ cfg_pc = "watch"
    /\ ~stop
    /\ current_config < MaxLoads
    /\ config_lock = "free"
    /\ config_lock' = "reload"
    /\ cfg_pc' = "load"
    /\ UNCHANGED <<new_button_to_wav, cfg_todo, current_button_to_wav,
                   reloadFrame>>

\* an exception that leaves the lock taken
ReloadLoadKeepsLock(outcome, buttons) ==
    /\ cfg_pc = "load"
    /\ IF outcome = "ok"
       THEN /\ new_button_to_wav' = <<>>
            /\ cfg_todo' = Items(buttons)
            /\ cfg_pc' = "build"
            /\ UNCHANGED config_lock
       ELSE /\ cfg_pc' = "failed"
            /\ UNCHANGED <<config_lock, new_button_to_wav, cfg_todo>>
    /\ UNCHANGED <<current_button_to_wav, reloadFrame>>

\* lines 228-231: load_config and get_active_profile, then build_button_map
\* starts on an empty dict; lines 239-240 on an exception
ReloadLoad(outcome, buttons) ==
    /\ cfg_pc = "load"
    /\ IF outcome = "ok"
       THEN /\ new_button_to_wav' = <<>>
            /\ cfg_todo' = Items(buttons)
            /\ cfg_pc' = "build"
            /\ UNCHANGED config_lock
       ELSE /\ config_lock' = "free"
            /\ cfg_pc' = "failed"
            /\ UNCHANGED <<new_button_to_wav, cfg_todo>>
    /\ UNCHANGED <<current_button_to_wav, reloadFrame>>

\* line 240 done: back in watch_config_file
ReloadReturn ==
    /\ cfg_pc = "failed"
    /\ cfg_pc' = "watch"
    /\ UNCHANGED <<config_lock, new_button_to_wav, cfg_todo,
                   current_button_to_wav, reloadFrame>>

NextReloadFail ==
    \/ \E b \in Buttons : LookupWav(b)
    \/ \E e \in BOOLEAN, d \in BOOLEAN : ReadDevice(e, d)
    \/ Interrupt
    \/ \E ok \in BOOLEAN, i \in 0..MaxPresses : Spawn(ok, i)
    \/ StartCheck
    \/ Assign
    \/ Notify
    \/ ReloadTake
    \/ \E o \in LoadOutcomes, c \in ConfigFiles : ReloadLoad(o, c)
    \/ ReloadBuild
    \/ SwapConfig
    \/ ReloadReturn

SpecReloadFail == Init /\ [][NextReloadFail]_vars

(***************************************************************************)
(* The serial connection loop of main (soundtrigger.py:375-459).           *)
(***************************************************************************)
\* min(backoff_s * 1.5, 5.0)
Min(a, b) == IF a < b THEN a ELSE b
NextBackoff(b) == Min((b * 3) \div 2, BackoffCap)

\* what the connection loop's steps leave alone
pressVars == <<current_process, current_button, last_press_ts,
               current_button_to_wav, btn_id, old, process, ret, npress,
               verdict, line_btn, mon_pc, last_signaled_process_id, proc,
               objid, now, ticks, emitted, accepted_ts, completionStops>>

\* a backoff sleep that ends while the device is resolvable and openable
Woken == IF dev = "ok" /\ sleeps_since_ok < 2
         THEN sleeps_since_ok + 1 ELSE sleeps_since_ok

\* lines 378-384: resolve the port; without one sleep(backoff_s)
Resolve ==
    /\ pc = "resolve"
    /\ ~stop
    /\ IF dev = "absent"
       THEN /\ fails < MaxFails
            /\ current_port' = "none"
            /\ fails' = fails + 1
            /\ sleep_for' = backoff_s
            /\ pc' = "notfound_sleep"
       ELSE /\ current_port' = "acm"
            /\ pc' = "open"
            /\ UNCHANGED <<fails, sleep_for>>
    /\ UNCHANGED <<backoff_s, stop, dev, sleeps_since_ok, lost_at>>
    /\ UNCHANGED <<pressVars, ipcVars, cfgVars, otherVars>>

\* lines 381-383: the sleep is over; raise the backoff; continue
NotFoundWakeFallsThrough ==
    /\ pc = "notfound_sleep"
    /\ backoff_s' = NextBackoff(backoff_s)
    /\ sleeps_since_ok' = Woken
    /\ sleep_for' = backoff_s'
    /\ pc' = "end_sleep"
    /\ UNCHANGED <<current_port, stop, dev, fails, lost_at>>
    /\ UNCHANGED <<pressVars, ipcVars, cfgVars, otherVars>>
NotFoundWake ==
    /\ pc = "notfound_sleep"
    /\ backoff_s' = NextBackoff(backoff_s)
    /\ sleeps_since_ok' = Woken
    /\ pc' = "resolve"
    /\ UNCHANGED <<current_port, stop, dev, fails, sleep_for, lost_at>>
    /\ UNCHANGED <<pressVars, ipcVars, cfgVars, otherVars>>

\* lines 386-388: the open succeeds and resets the backoff; lines 442-445
\* and 458-459: it raises, the backoff is raised, the port is reset and the
\* daemon sleeps backoff_s
OpenSerial ==
    /\ pc = "open"
    /\ IF dev = "ok"
       THEN /\ backoff_s' = BackoffStart
            /\ fails' = 0
            /\ pc' = "read"
            /\ UNCHANGED <<current_port, sleep_for>>
       ELSE /\ fails < MaxFails
            /\ backoff_s' = NextBackoff(backoff_s)
            /\ fails' = fails + 1
            /\ current_port' = "none"
            /\ sleep_for' = backoff_s'
            /\ pc' = "end_sleep"
    /\ UNCHANGED <<stop, dev, sleeps_since_ok, lost_at>>
    /\ UNCHANGED <<pressVars, ipcVars, cfgVars, otherVars>>

\* lines 391-400 and 458-459: readline() raises; current_port = None; break;
\* the "with" closes the port; sleep(backoff_s)
ReadErrorExits ==
    /\ pc = "read"
    /\ pc' = "done"
    /\ UNCHANGED connVars
    /\ UNCHANGED <<pressVars, ipcVars, cfgVars, otherVars>>
ReadError ==
    /\ pc = "read"
    /\ current_port' = "none"
    /\ sleep_for' = backoff_s
    /\ pc' = "end_sleep"
    /\ sleeps_since_ok' = 0
    /\ lost_at' = <<npress>>
    /\ UNCHANGED <<backoff_s, stop, dev, fails>>
    /\ UNCHANGED <<pressVars, ipcVars, cfgVars, otherVars>>

\* an exception of the iteration that no inner handler catches (the write
\* to stdout at line 403): lines 446-450 raise the backoff, then 458-459
LoopError ==
    /\ pc = "read"
    /\ backoff_s' = NextBackoff(backoff_s)
    /\ current_port' = "none"
    /\ sleep_for' = backoff_s'
    /\ pc' = "end_sleep"
    /\ sleeps_since_ok' = 0
    /\ lost_at' = <<npress>>
    /\ UNCHANGED <<stop, dev, fails>>
    /\ UNCHANGED <<pressVars, ipcVars, cfgVars, otherVars>>

\* line 459: the sleep is over; back to "while not stop"
EndSleepWake ==
    /\ pc = "end_sleep"
    /\ sleeps_since_ok' = Woken
    /\ pc' = "resolve"
    /\ UNCHANGED <<current_port, backoff_s, stop, dev, fails, sleep_for,
                   lost_at>>
    /\ UNCHANGED <<pressVars, ipcVars, cfgVars, otherVars>>

\* the device is unplugged, plugged in, or taken by another process
DevChange(d) ==
    /\ d # dev
    /\ dev' = d
    /\ sleeps_since_ok' = 0
    /\ UNCHANGED <<pc, current_port, backoff_s, stop, fails, sleep_for,
                   lost_at>>
    /\ UNCHANGED <<pressVars, ipcVars, cfgVars, otherVars>>

\* the steps of the main thread
MainSerial ==
    \/ \E b \in Buttons : dev = "ok" /\ ReadLine(b, 0, MaxPresses, 0)
    \/ MainPress
    \/ Resolve
    \/ NotFoundWake
    \/ OpenSerial
    \/ ReadError
    \/ LoopError
    \/ EndSleepWake

NextSerial ==
    \/ MainSerial
    \/ \E p \in Procs : ProcExit(p)
    \/ \E d \in {"absent", "unopenable", "ok"} : DevChange(d)

SpecSerial == SerialInit /\ [][NextSerial]_vars

(***************************************************************************)
(* The whole main loop (soundtrigger.py:375-468): connection loop, presses, *)
(* exceptions at every level, and shutdown by signal.                       *)
(***************************************************************************)
\* an exception inside the try of lines 430-439, uncaught by its handler
PressErrorRaises ==
    /\ pc \in {"checks", "notify"}
    /\ pc' = "done"
    /\ btn_id' = None /\ old' = None /\ process' = None /\ ret' = None
    /\ UNCHANGED <<current_process, current_button, last_press_ts,
                   current_button_to_wav, npress, verdict, line_btn, mon_pc,
                   last_signaled_process_id, proc, objid, now, ticks,
                   emitted, accepted_ts, completionStops>>
    /\ UNCHANGED chanVars

\* an exception inside the try of lines 430-439 that play_wav_interruptible
\* does not catch itself (wav_path.exists(), a print, Thread.start()):
\* lines 440-441 log it, the handle keeps its value, the read loop goes on
PressError ==
    /\ pc \in {"checks", "notify"}
    /\ pc' = "read"
    /\ btn_id' = None /\ old' = None /\ process' = None /\ ret' = None
    /\ UNCHANGED <<current_process, current_button, last_press_ts,
                   current_button_to_wav, npress, verdict, line_btn, mon_pc,
                   last_signaled_process_id, proc, objid, now, ticks,
                   emitted, accepted_ts, completionStops>>
    /\ UNCHANGED chanVars

\* line 375: "while not stop" fails at the head of the outer loop; lines
\* 461-468 as in ShutDown
ShutDownOuter ==
    /\ pc = "resolve"
    /\ stop
    /\ proc' = IF Running(current_process)
               THEN [proc EXCEPT ![current_process] = "exited"]
               ELSE proc
    /\ pc' = "done"
    /\ UNCHANGED <<current_process, current_button, last_press_ts,
                   current_button_to_wav, btn_id, old, process, ret, npress,
                   verdict, line_btn, mon_pc, last_signaled_process_id, objid,
                   now, ticks, emitted, accepted_ts>>
    /\ CompletionObs(FALSE)
    /\ UNCHANGED chanVars

NextMain ==
    \/ MainSerial
    \/ PressError
    \/ HandleSig
    \/ ShutDown
    \/ ShutDownOuter
    \/ \E p \in Procs : ProcExit(p)
    \/ \E d \in {"absent", "unopenable", "ok"} : DevChange(d)

SpecMain == SerialInit /\ [][NextMain]_vars

\* the positions of main outside the read loop
ConnPcs == {"resolve", "notfound_sleep", "open", "end_sleep"}

\* the main thread is scheduled and every sleep ends
SpecSerialFair == SpecSerial /\ WF_vars(MainPress \/ Resolve \/ NotFoundWake
                                          \/ OpenSerial \/ EndSleepWake)

(***************************************************************************)
(* Event Channel.  send_button_event_to_led_daemon (soundtrigger.py:125-151)*)
(* starts one daemon thread per notification; the thread runs              *)
(* write_to_led_fifo.  The FIFO follows Linux fifo(7): a non-blocking      *)
(* open for writing fails with ENXIO while no reader has it open, a        *)
(* blocking open waits for the other end, a write without reader fails     *)
(* with EPIPE, and the buffer lives as long as some end is open.           *)
(***************************************************************************)
\* what the trigger daemon sends: 0 for a stop, the id of a mapped button
\* for a press; the channel carries every press id alike, one stands for all
Notifications == {0} \cup {b \in DOMAIN build_button_map(ConfigButtons) : b = 1}
Msgs == 1..Len(wst)

\* the LED daemon has the FIFO open for reading, or is inside open()
ReaderAttached == led_pc \in {"opening", "read", "eof"}

\* writer threads that hold, or wait for, a write end of the FIFO
WriterEnds == {i \in Msgs : wst[i] \in {"nbwrite", "bwrite", "waiting"}}
WriterAttached == leaked \/ WriterEnds # {}

\* a writer's open() completes the LED daemon's pending open()
WakeReader == IF led_pc = "opening" THEN "read" ELSE led_pc

\* lines 149-151: threading.Thread(target=write_to_led_fifo).start()
StartWriter(v) ==
    /\ emitted' = Append(emitted, v)
    /\ wst' = Append(wst, "start")
    /\ reader_at_emit' = Append(reader_at_emit, ReaderAttached)

\* the trigger daemon emits a notification (press id, or 0 for stop): the
\* caller starts the thread and returns; it never joins it
EmitWaits(v) ==
    /\ Len(emitted) < MaxMsgs
    /\ \A i \in Msgs : wst[i] \in {"written", "lost", "discarded", "infile"}
    /\ StartWriter(v)
    /\ UNCHANGED <<fifo, pipe, leaked, led_pc, led_state, delivered,
                   absent_seen, held>>
    /\ UNCHANGED <<hostVars, ledVars>>
Emits(v) ==
    /\ Len(emitted) < MaxMsgs
    /\ StartWriter(v)
    /\ UNCHANGED <<fifo, pipe, leaked, led_pc, led_state, delivered,
                   absent_seen, held, ledVars>>
Emit(v) == Emits(v) /\ UNCHANGED hostVars

\* line 129: if LED_FIFO.exists()
WriterExistsRetry(i) ==
    /\ i \in Msgs
    /\ wst[i] = "start"
    /\ IF fifo = "absent"
       THEN /\ absent_seen' = absent_seen \cup {i}
            /\ UNCHANGED wst
       ELSE /\ wst' = [wst EXCEPT ![i] = "nbopen"]
            /\ UNCHANGED absent_seen
    /\ UNCHANGED <<emitted, fifo, pipe, leaked, led_pc, led_state, delivered,
                   reader_at_emit, held>>
    /\ UNCHANGED <<hostVars, ledVars>>
WriterExists(i) ==
    /\ i \in Msgs
    /\ wst[i] = "start"
    /\ IF fifo = "absent"
       THEN /\ wst' = [wst EXCEPT ![i] = "discarded"]
            /\ absent_seen' = absent_seen \cup {i}
       ELSE /\ wst' = [wst EXCEPT ![i] = "nbopen"]
            /\ UNCHANGED absent_seen
    /\ UNCHANGED <<emitted, fifo, pipe, leaked, led_pc, led_state, delivered,
                   reader_at_emit, held>>
    /\ UNCHANGED <<hostVars, ledVars>>

\* line 133: os.open(LED_FIFO, O_WRONLY | O_NONBLOCK)
\* (on a regular file the open, the write of line 134 and the close succeed)
WriterOpenNonBlocking(i) ==
    /\ i \in Msgs
    /\ wst[i] = "nbopen"
    /\ IF fifo = "file"
       THEN /\ wst' = [wst EXCEPT ![i] = "infile"]
            /\ UNCHANGED led_pc
       ELSE IF fifo = "fifo" /\ ReaderAttached
       THEN /\ wst' = [wst EXCEPT ![i] = "nbwrite"]
            /\ led_pc' = WakeReader
       ELSE \* ENOENT or ENXIO: OSError, line 136
            /\ wst' = [wst EXCEPT ![i] = "fallback"]
            /\ UNCHANGED led_pc
    /\ UNCHANGED <<emitted, fifo, pipe, leaked, led_state, delivered,
                   reader_at_emit, absent_seen, held>>
    /\ UNCHANGED <<hostVars, ledVars>>

\* lines 134-135: os.write(fd, ...); os.close(fd).  EPIPE is an OSError:
\* line 136 catches it and line 135 is skipped, the descriptor stays open.
WriterWrite(i) ==
    /\ i \in Msgs
    /\ wst[i] = "nbwrite"
    /\ IF ReaderAttached
       THEN /\ pipe' = Append(pipe, i)
            /\ wst' = [wst EXCEPT ![i] = "written"]
            /\ UNCHANGED leaked
       ELSE /\ wst' = [wst EXCEPT ![i] = "fallback"]
            /\ leaked' = TRUE
            /\ UNCHANGED pipe
    /\ UNCHANGED <<emitted, fifo, led_pc, led_state, delivered,
                   reader_at_emit, absent_seen, held>>
    /\ UNCHANGED <<hostVars, ledVars>>

\* line 140: open(LED_FIFO, 'w'), blocking; mode 'w' creates a regular file
\* when nothing is at the path
WriterOpenBlocking(i) ==
    /\ i \in Msgs
    /\ wst[i] = "fallback"
    /\ IF fifo # "fifo"
       THEN /\ fifo' = "file"
            /\ wst' = [wst EXCEPT ![i] = "infile"]
            /\ UNCHANGED led_pc
       ELSE IF ReaderAttached
       THEN /\ wst' = [wst EXCEPT ![i] = "bwrite"]
            /\ led_pc' = WakeReader
            /\ UNCHANGED fifo
       ELSE /\ wst' = [wst EXCEPT ![i] = "waiting"]
            /\ UNCHANGED <<fifo, led_pc>>
    /\ held' = IF fifo = "fifo" /\ ~ReaderAttached THEN held \cup {i} ELSE held
    /\ UNCHANGED <<emitted, pipe, leaked, led_state, delivered,
                   reader_at_emit, absent_seen>>
    /\ UNCHANGED <<hostVars, ledVars>>

\* lines 141-144: fifo.write(); fifo.flush(); close.  BrokenPipeError: pass
WriterFlush(i) ==
    /\ i \in Msgs
    /\ wst[i] = "bwrite"
    /\ IF ReaderAttached
       THEN /\ pipe' = Append(pipe, i)
            /\ wst' = [wst EXCEPT ![i] = "written"]
       ELSE /\ wst' = [wst EXCEPT ![i] = "lost"]
            /\ pipe' = IF leaked \/ WriterEnds # {i} THEN pipe ELSE <<>>
    /\ UNCHANGED <<emitted, fifo, leaked, led_pc, led_state, delivered,
                   reader_at_emit, absent_seen, held>>
    /\ UNCHANGED <<hostVars, ledVars>>

(***************************************************************************)
(* LED daemon (led_daemon.py)                                              *)
(***************************************************************************)
\* A line is a sequence of characters.  f"{btn_id}\n" is the decimal
\* numeral of the id and a newline; int(line.strip()) removes the white
\* space at both ends and accepts an optional sign and decimal digits.
DigitChars == <<"0", "1", "2", "3", "4", "5", "6", "7", "8", "9">>
IsDigit(c) == \E k \in DOMAIN DigitChars : DigitChars[k] = c
DigitVal(c) == (CHOOSE k \in DOMAIN DigitChars : DigitChars[k] = c) - 1
Whitespace == {" ", "\n"}
BadByte == "0xFF"          \* a byte that is not valid UTF-8

RECURSIVE Decimal(_)
Decimal(n) ==
    IF n < Len(DigitChars) THEN <<DigitChars[n + 1]>>
    ELSE Append(Decimal(n \div Len(DigitChars)),
                DigitChars[(n % Len(DigitChars)) + 1])

\* soundtrigger.py:134 and 141: f"{btn_id}\n"
FormatLine(v) == Append(Decimal(v), "\n")

RECURSIVE LStrip(_)
LStrip(t) ==
    IF t # <<>> /\ Head(t) \in Whitespace THEN LStrip(Tail(t)) ELSE t
RECURSIVE RStrip(_)
RStrip(t) ==
    IF t # <<>> /\ t[Len(t)] \in Whitespace
    THEN RStrip(SubSeq(t, 1, Len(t) - 1)) ELSE t
Strip(t) == RStrip(LStrip(t))

Unsigned(t) == IF t # <<>> /\ Head(t) \in {"-", "+"} THEN Tail(t) ELSE t
IsInt(t) ==
    /\ Unsigned(t) # <<>>
    /\ \A k \in 1..Len(Unsigned(t)) : IsDigit(Unsigned(t)[k])
RECURSIVE Magnitude(_)
Magnitude(t) ==
    IF t = <<>> THEN 0
    ELSE Len(DigitChars) * Magnitude(SubSeq(t, 1, Len(t) - 1))
            + DigitVal(t[Len(t)])
IntVal(t) ==
    IF Head(t) = "-" THEN 0 - Magnitude(Unsigned(t)) ELSE Magnitude(Unsigned(t))

\* LEDController.button_pressed, lines 139-143
button_pressedToggles(state, button_id) ==
    IF state = "idle" THEN "flashing" ELSE "idle"
button_pressed(state, button_id) == "flashing"

\* LEDController.stop_flashing, lines 145-150
stop_flashing(state) == IF state = "flashing" THEN "idle" ELSE state

\* lines 207-218: int(line.strip()); 0 stops, any other id starts; a
\* ValueError is passed over
LedHandleLineStops(state, line) ==
    LET t == Strip(line)
    IN  IF ~IsInt(t) THEN "idle"
        ELSE IF IntVal(t) = 0 THEN stop_flashing(state)
        ELSE button_pressed(state, IntVal(t))
LedHandleLine(state, line) ==
    LET t == Strip(line)
    IN  IF ~IsInt(t) THEN state
        ELSE IF IntVal(t) = 0 THEN stop_flashing(state)
        ELSE button_pressed(state, IntVal(t))

\* the event loop handles one line that is not the end of file
LedHandles(line) ==
    LET t == Strip(line)
    IN  /\ led_line' = line
        /\ led_state' = LedHandleLine(led_state, line)
        /\ led_last' = IF IsInt(t) THEN <<IntVal(t)>> ELSE led_last
        /\ press_pending' =
              IF ~IsInt(t) THEN press_pending
              ELSE IF IntVal(t) = 0 THEN FALSE
              ELSE led_state = "flashing"

\* main, lines 169-188: create the FIFO if nothing is there (exit(1) if the
\* path is not a named pipe), LEDController() starts Idle with the output
\* off, start_control_loop() starts the control thread
LedStarts ==
    /\ led_pc = "down"
    /\ fifo # "file"
    /\ fifo' = "fifo"
    /\ led_state' = "idle"
    /\ led_pc' = "reopen"
    /\ ctl_pc' = "dispatch"
    /\ led_out' = "off"
    /\ led_line' = <<>>
    /\ led_last' = <<>>
    /\ press_pending' = FALSE
    /\ UNCHANGED <<emitted, pipe, wst, leaked, delivered, reader_at_emit,
                   absent_seen, held>>
LedStart == LedStarts /\ UNCHANGED hostVars

\* line 199: open(EVENT_FIFO, 'r') blocks until a write end is open; it lets
\* the writers go that wait in their blocking open.  Without a path the
\* open raises FileNotFoundError (line 220): sleep and try again.
LedOpen ==
    /\ led_pc = "reopen"
    /\ IF fifo = "absent"
       THEN UNCHANGED <<led_pc, wst>>
       ELSE /\ led_pc' = IF WriterAttached THEN "read" ELSE "opening"
            /\ wst' = [i \in Msgs |->
                          IF wst[i] = "waiting" THEN "bwrite" ELSE wst[i]]
    /\ UNCHANGED <<emitted, fifo, pipe, leaked, led_state, delivered,
                   reader_at_emit, absent_seen, held>>
    /\ UNCHANGED <<hostVars, ledVars>>

\* lines 201-218: readline(); EOF when the buffer is empty and no write end
\* is open; 0 stops the flashing, any other id starts it
LedRead ==
    /\ led_pc = "read"
    /\ IF pipe # <<>>
       THEN /\ pipe' = Tail(pipe)
            /\ delivered' = Append(delivered, Head(pipe))
            /\ LedHandles(FormatLine(emitted[Head(pipe)]))
            /\ UNCHANGED led_pc
       ELSE /\ ~WriterAttached
            /\ led_pc' = "eof"
            /\ UNCHANGED <<pipe, delivered, led_state, led_line, led_last,
                           press_pending>>
    /\ UNCHANGED <<emitted, fifo, wst, leaked, reader_at_emit, absent_seen,
                   held, ctl_pc, led_out>>
    /\ UNCHANGED hostVars

\* lines 203-205 and the end of "with": break, close the read end
LedClose ==
    /\ led_pc = "eof"
    /\ led_pc' = "reopen"
    /\ pipe' = IF WriterAttached THEN pipe ELSE <<>>
    /\ UNCHANGED <<emitted, fifo, wst, leaked, led_state, delivered,
                   reader_at_emit, absent_seen, held>>
    /\ UNCHANGED <<hostVars, ledVars>>

\* lines 226-236: KeyboardInterrupt, cleanup, EVENT_FIFO.unlink().  Ends of
\* the unlinked FIFO never meet a reader again: a pending write fails, a
\* writer waiting in open() waits for ever.
AfterUnlink(st) ==
    IF st = "nbwrite" THEN "fallback"
    ELSE IF st = "bwrite" THEN "lost"
    ELSE IF st = "waiting" THEN "stuck"
    ELSE st
LedStops ==
    /\ led_pc # "down"
    /\ led_pc' = "down"
    /\ fifo' = "absent"
    /\ pipe' = <<>>
    /\ leaked' = FALSE
    /\ wst' = [i \in Msgs |-> AfterUnlink(wst[i])]
    /\ ctl_pc' = "down"
    /\ led_out' = "off"          \* cleanup(): GPIO.output(LOW)
    /\ led_line' = <<>>
    /\ led_last' = <<>>
    /\ press_pending' = FALSE
    /\ UNCHANGED <<emitted, led_state, delivered, reader_at_emit, absent_seen, held>>
LedStop == LedStops /\ UNCHANGED hostVars

\* the LED daemon is ended by SIGTERM or a crash: no "finally", the FIFO
\* stays and the output keeps its last level
LedKill ==
    /\ led_pc # "down"
    /\ led_pc' = "down"
    /\ pipe' = IF WriterAttached THEN pipe ELSE <<>>
    /\ ctl_pc' = "down"
    /\ led_line' = <<>>
    /\ led_last' = <<>>
    /\ press_pending' = FALSE
    /\ UNCHANGED <<emitted, fifo, wst, leaked, led_state, delivered,
                   reader_at_emit, absent_seen, held, led_out>>
    /\ UNCHANGED hostVars

NextChannel ==
    \/ \E v \in Notifications : Emit(v)
    \/ \E i \in 1..MaxMsgs : WriterExists(i)
    \/ \E i \in 1..MaxMsgs : WriterOpenNonBlocking(i)
    \/ \E i \in 1..MaxMsgs : WriterWrite(i)
    \/ \E i \in 1..MaxMsgs : WriterOpenBlocking(i)
    \/ \E i \in 1..MaxMsgs : WriterFlush(i)
    \/ LedStart
    \/ LedOpen
    \/ LedRead
    \/ LedClose
    \/ LedStop
    \/ LedKill

SpecChannel == Init /\ [][NextChannel]_vars

(***************************************************************************)
(* The Event Channel over restarts of the LED daemon: the daemon exits by  *)
(* KeyboardInterrupt (unlinking the FIFO) and is started again, while the  *)
(* trigger daemon keeps running.  cycle records the exits, whether the     *)
(* last event of the LED daemon was a start after an exit, and the         *)
(* notifications emitted since that start.                                 *)
(***************************************************************************)
\* a start of the LED daemon after an exit
Started == [cycle EXCEPT !.since_restart = cycle.exits > 0]

\* led_daemon.py:169-188: the start finds nothing or a FIFO at the path
LedRestart ==
    /\ LedStarts
    /\ cycle' = Started
    /\ UNCHANGED hostFrame

\* led_daemon.py:172-176: the path exists and is not a named pipe:
\* "exists but is not a named pipe", sys.exit(1)
LedStartFails ==
    /\ led_pc = "down"
    /\ fifo = "file"
    /\ cycle' = Started
    /\ UNCHANGED <<emitted, ipcVars, hostFrame>>

\* led_daemon.py:224-236: KeyboardInterrupt, cleanup, unlink
LedExit ==
    /\ cycle.exits < MaxCycles
    /\ LedStops
    /\ cycle' = [exits |-> cycle.exits + 1, since_restart |-> FALSE,
                 flagged |-> {}]
    /\ UNCHANGED hostFrame

\* soundtrigger.py:149-151, the same trigger daemon as before
RestartEmit(v) ==
    /\ Emits(v)
    /\ cycle' = [cycle EXCEPT !.flagged =
                     IF cycle.since_restart
                     THEN cycle.flagged \cup {Len(emitted) + 1}
                     ELSE cycle.flagged]
    /\ UNCHANGED hostFrame

NextRestart ==
    \/ \E v \in Notifications : RestartEmit(v)
    \/ \E i \in 1..MaxMsgs : WriterExists(i)
    \/ \E i \in 1..MaxMsgs : WriterOpenNonBlocking(i)
    \/ \E i \in 1..MaxMsgs : WriterWrite(i)
    \/ \E i \in 1..MaxMsgs : WriterOpenBlocking(i)
    \/ \E i \in 1..MaxMsgs : WriterFlush(i)
    \/ LedRestart
    \/ LedStartFails
    \/ LedOpen
    \/ LedRead
    \/ LedClose
    \/ LedExit

SpecRestart == Init /\ [][NextRestart]_vars

(***************************************************************************)
(* The LED daemon on its own: the event loop of main() fed by any process  *)
(* that writes to the FIFO, and the control thread of LEDController         *)
(* (led_daemon.py:106-134).                                                *)
(***************************************************************************)
\* lines of digits and blanks, lines with a sign, a line that is no number,
\* and a line with a byte that does not decode
LineChars == {"0", "1", " "}
SignedBodies == {<<"-">>, <<"-", "0">>, <<"-", "1">>}
LineBodies == UNION {[1..n -> LineChars] : n \in 0..MaxLineLen}
                 \cup SignedBodies \cup {<<"x">>, <<BadByte>>}
\* what readline() can return: a line with its newline, or the unterminated
\* rest before the end of file; <<>> is the end of file
Lines == {Append(b, "\n") : b \in LineBodies} \cup (LineBodies \ {<<>>})
EndOfFile == <<>>

\* some process opens the FIFO for writing: the pending open() returns
PeerOpen ==
    /\ led_pc = "opening"
    /\ led_pc' = "read"
    /\ UNCHANGED <<emitted, fifo, pipe, wst, leaked, led_state, delivered,
                   reader_at_emit, absent_seen, held>>
    /\ UNCHANGED <<hostVars, ledVars>>

\* lines 201-225 for one readline(): the end of file breaks out to reopen;
\* undecodable bytes raise UnicodeDecodeError out of readline(), caught at
\* line 223 (sleep, reopen); any other line is handled
LedReadLine(line) ==
    /\ led_pc = "read"
    /\ IF line = EndOfFile
       THEN /\ led_pc' = "eof"
            /\ led_line' = line
            /\ UNCHANGED <<led_state, led_last, press_pending>>
       ELSE IF \E k \in 1..Len(line) : line[k] = BadByte
       THEN /\ led_pc' = "reopen"
            /\ led_line' = line
            /\ UNCHANGED <<led_state, led_last, press_pending>>
       ELSE /\ LedHandles(line)
            /\ UNCHANGED led_pc
    /\ UNCHANGED <<emitted, fifo, pipe, wst, leaked, delivered,
                   reader_at_emit, absent_seen, held, ctl_pc, led_out>>
    /\ UNCHANGED hostVars

\* the path is removed, or made again, by another process while the daemon runs
PathRemoved ==
    /\ led_pc # "down"
    /\ fifo = "fifo"
    /\ fifo' = "absent"
    /\ UNCHANGED <<emitted, pipe, wst, leaked, led_pc, led_state, delivered,
                   reader_at_emit, absent_seen, held>>
    /\ UNCHANGED <<hostVars, ledVars>>
PathCreated ==
    /\ led_pc # "down"
    /\ fifo = "absent"
    /\ fifo' = "fifo"
    /\ UNCHANGED <<emitted, pipe, wst, leaked, led_pc, led_state, delivered,
                   reader_at_emit, absent_seen, held>>
    /\ UNCHANGED <<hostVars, ledVars>>

\* what the control thread's steps leave alone
ctlFrame == <<emitted, fifo, pipe, wst, leaked, led_pc, led_state, delivered,
              reader_at_emit, absent_seen, held, led_line, led_last>>

\* _run_control_loop, lines 128-134: enter the loop of the current state
RunControlLoop ==
    /\ ctl_pc = "dispatch"
    /\ ctl_pc' = IF led_state = "idle" THEN "idle" ELSE "flash"
    /\ UNCHANGED <<led_out, press_pending>>
    /\ UNCHANGED <<hostVars, ctlFrame>>

\* _idle_pulsing_loop, lines 89-104: one pass of the while
IdlePulsingLoop ==
    /\ ctl_pc = "idle"
    /\ IF led_state = "idle"
       THEN /\ led_out' = "pulse"
            /\ press_pending' = FALSE
            /\ UNCHANGED ctl_pc
       ELSE /\ ctl_pc' = "dispatch"
            /\ UNCHANGED <<led_out, press_pending>>
    /\ UNCHANGED <<hostVars, ctlFrame>>

\* _flashing_loop, lines 108-111: the while test, then set_pwm_duty(100) and
\* the sleep of FLASH_ON_MS
FlashingLoopOn ==
    /\ ctl_pc \in {"flash", "off"}
    /\ IF led_state = "flashing"
       THEN /\ led_out' = "on"
            /\ press_pending' = FALSE
            /\ ctl_pc' = "on"
       ELSE /\ ctl_pc' = "dispatch"
            /\ UNCHANGED <<led_out, press_pending>>
    /\ UNCHANGED <<hostVars, ctlFrame>>

\* _flashing_loop, lines 113-115: set_pwm_duty(0) and the sleep of FLASH_OFF_MS
FlashingLoopOff ==
    /\ ctl_pc = "on"
    /\ led_out' = "off"
    /\ press_pending' = FALSE
    /\ ctl_pc' = "off"
    /\ UNCHANGED <<hostVars, ctlFrame>>

NextLed ==
    \/ LedStart
    \/ LedOpen
    \/ PeerOpen
    \/ \E line \in Lines \cup {EndOfFile} : LedReadLine(line)
    \/ LedClose
    \/ LedStop
    \/ LedKill
    \/ PathRemoved
    \/ PathCreated
    \/ RunControlLoop
    \/ IdlePulsingLoop
    \/ FlashingLoopOn
    \/ FlashingLoopOff

SpecLed == Init /\ [][NextLed]_vars

(***************************************************************************)
(* The serial line as text (soundtrigger.py:30, 391, 402-411): readline(), *)
(* decode("ascii", errors="ignore"), PRESS_RE.match.                       *)
(***************************************************************************)
\* what \s matches among the characters of the model
RegexSpace == {" ", "\n", "\r"}

\* bytes.decode("ascii", errors="ignore"): bytes above 0x7F are dropped
decode(raw) == SelectSeq(raw, LAMBDA c : c # BadByte)

AllSpace(t) == \A k \in 1..Len(t) : t[k] \in RegexSpace
AllDigits(t) == \A k \in 1..Len(t) : IsDigit(t[k])

\* ^P,(\d{1,3})\s*$
PressGroupsLoose(line) ==
    {n \in {1, 2, 3} :
        /\ Len(line) >= 2 + n
        /\ SubSeq(line, 1, 2) = <<"P", ",">>
        /\ AllDigits(SubSeq(line, 3, 2 + n))
        /\ AllSpace(SubSeq(line, 3 + n, Len(line)))}

\* PRESS_RE = ^P,(\d{1,2})\s*$ : the lengths the group can have in a match
PressGroups(line) ==
    {n \in {1, 2} :
        /\ Len(line) >= 2 + n
        /\ SubSeq(line, 1, 2) = <<"P", ",">>
        /\ AllDigits(SubSeq(line, 3, 2 + n))
        /\ AllSpace(SubSeq(line, 3 + n, Len(line)))}

\* m = PRESS_RE.match(line); int(m.group(1)), lines 407-411
PressMatch(line) == PressGroups(line) # {}
PressId(line) ==
    LET n == CHOOSE k \in PressGroups(line) : TRUE
    IN  Magnitude(SubSeq(line, 3, 2 + n))

\* the lines readline() returns: P lines of the firmware with their line
\* ends, and other text
SerialLines ==
    {<<"P", ",", "1", "\n">>, <<"P", ",", "2", "\r", "\n">>,
     <<"P", ",", "3", "\n">>, <<"P", ",", "1", "6", "\n">>,
     <<"P", ",", "0", "1", "\n">>, <<"P", ",", "1">>, <<"P", ",", "0", "\n">>,
     <<"P", ",", "2", " ", "\n">>, <<"P", ",", BadByte, "2", "\n">>,
     <<>>, <<"\n">>, <<"P", ",", "1", "2", "3", "\n">>,
     <<"P", ",", "7", "x", "\n">>, <<"S", ",", "1", ",", "1", "\n">>,
     <<" ", "P", ",", "1", "\n">>, <<"p", ",", "1", "\n">>,
     <<"P", ",", "\n">>, <<"P", ",", "-", "1", "\n">>,
     <<"P", "1", "\n">>, <<"P", ",", "1", ",", "2", "\n">>,
     <<"P", ",", " ", "1", "\n">>, <<"x", "\n">>,
     <<"P", ",", "1", " ", "2", "\n">>}

\* lines 402-420 for one line read; a line that is empty or does not match
\* is passed over
handle_serial(raw) ==
    LET line == decode(raw)
    IN  /\ ser_line' = <<line>>
        /\ IF PressMatch(line)
           THEN ReadLineMain(PressId(line), 0, LinePresses, 0)
           ELSE pc = "read" /\ ~stop /\ UNCHANGED daemonVars

serFrame == <<ipcVars, connVars, cfgVars, resolveVars, scanVars, cmdVars,
              blinkVars, cycleVars, verVars>>

\* line 391 returns a line, lines 402-420 handle it
SerialLine(raw) ==
    /\ handle_serial(raw)
    /\ UNCHANGED <<flight, wire, sent, serFrame>>

\* the main thread alone: players run on
NextLine ==
    \/ \E raw \in SerialLines : SerialLine(raw)
    \/ MainPress

\* pico_firmware/main.py:138: sys.stdout.write("P,{}\n".format(btn_id))
FirmwareSends(k) ==
    /\ Len(sent) < MaxSent
    /\ flight' = flight \o <<"P", ",">> \o FormatLine(k)
    /\ sent' = Append(sent, k)
    /\ UNCHANGED <<wire, ser_line, daemonVars, serFrame>>

\* the next character reaches the host's receive buffer
Arrive ==
    /\ flight # <<>>
    /\ wire' = Append(wire, Head(flight))
    /\ flight' = Tail(flight)
    /\ UNCHANGED <<ser_line, sent, daemonVars, serFrame>>

\* the characters up to and with the first newline of t, 0 without one
LineEnd(t) ==
    IF \E i \in 1..Len(t) : t[i] = "\n"
    THEN CHOOSE i \in 1..Len(t) : t[i] = "\n" /\ \A j \in 1..(i - 1) : t[j] # "\n"
    ELSE 0

\* ser.readline() with timeout=0.5 (lines 67-70, 391): the line up to its
\* newline, or, when none has come 0.5 s after the last character, whatever
\* was received
readline(t) == IF LineEnd(t) > 0 THEN SubSeq(t, 1, LineEnd(t)) ELSE t

\* a readline() that returns only lines with their newline
readline_whole(t) == SubSeq(t, 1, LineEnd(t))

\* lines 391-420 on the receive buffer
SerialRead ==
    /\ handle_serial(readline(wire))
    /\ wire' = SubSeq(wire, Len(readline(wire)) + 1, Len(wire))
    /\ UNCHANGED <<flight, sent, serFrame>>

WireButtons == {1, 2, 16}

NextWire ==
    \/ \E k \in WireButtons : FirmwareSends(k)
    \/ Arrive
    \/ SerialRead
    \/ MainPress

SpecWire == Init /\ [][NextWire]_vars

\* a profile whose "buttons" object has the key "0"
ZeroButtons == [b \in {0, 1} |-> 1]

\* main() after start-up with one of two profiles
LineInit ==
    /\ pc = "read"
    /\ DaemonLocals
    /\ current_button_to_wav \in
          {build_button_map(ConfigButtons), build_button_map(ZeroButtons)}
    /\ ChannelInit /\ ConnInit /\ OtherInit

SpecLine == LineInit /\ [][NextLine]_vars

(***************************************************************************)
(* resolve_serial_port (soundtrigger.py:73-104).  A name is the sequence   *)
(* of its characters; sorted() orders names by their code points.          *)
(***************************************************************************)
Chars == {"0", "1", "2", "4", "F", "P", "R", "T", "c", "i", "o", "p", "x"}
Ord == [c \in Chars |->
          CASE c = "0" -> 48 [] c = "1" -> 49 [] c = "2" -> 50 [] c = "4" -> 52
            [] c = "F" -> 70 [] c = "P" -> 80 [] c = "R" -> 82 [] c = "T" -> 84
            [] c = "c" -> 99 [] c = "i" -> 105 [] c = "o" -> 111
            [] c = "p" -> 112 [] c = "x" -> 120]

\* a < b for two strings
RECURSIVE StrLess(_, _)
StrLess(a, b) ==
    IF b = <<>> THEN FALSE
    ELSE IF a = <<>> THEN TRUE
    ELSE IF Ord[Head(a)] # Ord[Head(b)] THEN Ord[Head(a)] < Ord[Head(b)]
    ELSE StrLess(Tail(a), Tail(b))

\* sorted(S)
RECURSIVE Sorted(_)
Sorted(S) ==
    IF S = {} THEN <<>>
    ELSE LET m == CHOOSE x \in S : \A y \in S \ {x} : StrLess(x, y)
         IN  <<m>> \o Sorted(S \ {m})

\* sub in name
Contains(name, sub) ==
    \E i \in 0..(Len(name) - Len(sub)) :
        \A k \in 1..Len(sub) : name[i + k] = sub[k]

\* "Pico" in c.name or "RP2040" in c.name
PicoLike(name) ==
    \/ Contains(name, <<"P", "i", "c", "o">>)
    \/ Contains(name, <<"R", "P", "2", "0", "4", "0">>)

\* [c for c in seq if keep(c)]
RECURSIVE Filter(_, _)
Filter(seq, keep) ==
    IF seq = <<>> THEN <<>>
    ELSE IF Head(seq) \in keep THEN <<Head(seq)>> \o Filter(Tail(seq), keep)
    ELSE Filter(Tail(seq), keep)

\* the names a sequence holds
Range(seq) == {seq[k] : k \in 1..Len(seq)}

\* lines 85-90, without the preference: the candidates as globbed and sorted
ByIdOrderPlain(entries) == Sorted(entries)
\* lines 85-90: pico_first + [c for c in candidates if c not in pico_first]
ByIdOrder(entries) ==
    LET candidates == Sorted(entries)
        pico_first == Sorted({c \in entries : PicoLike(c)})
    IN  pico_first \o Filter(candidates, entries \ Range(pico_first))

\* the first entry of the loop for which exists() is true; an exists() that
\* is false or raises passes to the next entry
RECURSIVE FirstLive(_, _)
FirstLive(seq, live) ==
    IF seq = <<>> THEN <<>>
    ELSE IF Head(seq) \in live THEN <<Head(seq)>>
    ELSE FirstLive(Tail(seq), live)

resolve_serial_port(f) ==
    LET by_id == FirstLive(ByIdOrder(f.by_live \cup f.by_dead), f.by_live)
        acm == FirstLive(Sorted(f.acm_live \cup f.acm_gone), f.acm_live)
    IN  IF f.preferred = "yes"                         \* lines 75-80
        THEN [kind |-> "preferred", name |-> <<>>]
        ELSE IF by_id # <<>>                           \* lines 83-95
        THEN [kind |-> "by-id", name |-> by_id[1]]
        ELSE IF acm # <<>>                             \* lines 98-103
        THEN [kind |-> "acm", name |-> acm[1]]
        ELSE [kind |-> "none", name |-> <<>>]          \* line 104

\* entries of /dev/serial/by-id and the suffixes of /dev/ttyACM*
ByIdNames == {<<"F", "T">>, <<"P", "i", "c", "o">>,
              <<"R", "P", "2", "0", "4", "0">>, <<"p", "i", "c", "o">>,
              <<"x", "P", "i", "c", "o">>}
AcmNames == {<<"0">>, <<"1", "0">>, <<"2">>}

\* the states of /dev at a call: the preferred path exists, does not, or
\* its exists() raises; every by-id entry is absent, a link to a device, or
\* a link whose exists() is false or raises; every ttyACM node is absent,
\* present, or removed between glob() and exists()
FileSystems ==
    {f \in [preferred : {"yes", "no", "error"},
            by_live : SUBSET ByIdNames, by_dead : SUBSET ByIdNames,
            acm_live : SUBSET AcmNames, acm_gone : SUBSET AcmNames] :
        /\ f.by_live \cap f.by_dead = {}
        /\ f.acm_live \cap f.acm_gone = {}}

ResolveInit ==
    /\ DaemonInit /\ ChannelInit /\ ConnInit /\ FirmwareInit /\ LedInit
    /\ CycleInit /\ LateInit
    /\ fs \in FileSystems
    /\ resolved = NotCalled

ResolveCall ==
    /\ resolved = NotCalled
    /\ resolved' = resolve_serial_port(fs)
    /\ UNCHANGED <<fs, daemonVars, ipcVars, connVars, cfgVars, scanVars,
                   cmdVars, blinkVars, cycleVars, lateVars>>

SpecResolve == ResolveInit /\ [][ResolveCall]_vars

(***************************************************************************)
(* Pico firmware, the scan loop (pico_firmware/main.py:123-142 and         *)
(* main_watchdog.py:44-59).  One step is one pass of the loop: the tick    *)
(* counter is read at its head, then every pin is sampled.  Pins change    *)
(* between passes.                                                         *)
(***************************************************************************)
DEBOUNCE_MS == 50                \* main.py
WatchdogDebounceMs == 100        \* main_watchdog.py
TicksPeriod == 1073741824        \* time.ticks_ms() wraps at 2^30
LongIdle == 536870912            \* an idle period of 2^29 ms

DebounceOf(fwm) == IF fwm = "main" THEN DEBOUNCE_MS ELSE WatchdogDebounceMs

\* ms from the head of one pass to the head of the next: the sleep_ms of the
\* loop, and longer passes that reach the debounce interval or just pass it
ScanSteps(fwm) ==
    IF fwm = "main" THEN {10, DEBOUNCE_MS - 10, DEBOUNCE_MS - 9}
    ELSE {20, WatchdogDebounceMs - 20, WatchdogDebounceMs - 19}

\* time.ticks_ms() and time.ticks_diff(a, b)
ticks_ms(t) == t % TicksPeriod
ticks_diff(a, b) ==
    ((a - b + TicksPeriod \div 2) % TicksPeriod) - TicksPeriod \div 2

\* lines 129-141 for one button, the edge kept for the next pass when the
\* debounce interval has not elapsed
ScanButtonRetries(state, last, last_ms, now_ms, debounce) ==
    IF state # last
    THEN IF state = 0
         THEN IF ticks_diff(now_ms, last_ms) > debounce
              THEN [last_state |-> state, last_time_ms |-> now_ms, emit |-> TRUE]
              ELSE [last_state |-> last, last_time_ms |-> last_ms, emit |-> FALSE]
         ELSE [last_state |-> state, last_time_ms |-> last_ms, emit |-> FALSE]
    ELSE [last_state |-> last, last_time_ms |-> last_ms, emit |-> FALSE]
\* lines 129-141 for one button, writing a P line for the level, not the edge
ScanButtonLevel(state, last, last_ms, now_ms, debounce) ==
    IF state = 0 /\ ticks_diff(now_ms, last_ms) > debounce
    THEN [last_state |-> state, last_time_ms |-> now_ms, emit |-> TRUE]
    ELSE [last_state |-> state, last_time_ms |-> last_ms, emit |-> FALSE]
\* lines 129-141 for one button: state is the level sampled
ScanButton(state, last, last_ms, now_ms, debounce) ==
    IF state # last
    THEN IF state = 0 /\ ticks_diff(now_ms, last_ms) > debounce
         THEN [last_state |-> state, last_time_ms |-> now_ms, emit |-> TRUE]
         ELSE [last_state |-> state, last_time_ms |-> last_ms, emit |-> FALSE]
    ELSE [last_state |-> last, last_time_ms |-> last_ms, emit |-> FALSE]

\* one pass of the loop, e ms after the head of the pass before
Scan(e) ==
    /\ scan_obs.scans < MaxScans
    /\ LET now_ms == ticks_ms(fw_time + e)
           r == [b \in FwButtons |->
                    ScanButton(pin[b], last_state[b], last_time_ms[b], now_ms,
                               DebounceOf(firmware))]
           edge == [b \in FwButtons |-> pin[b] = 0 /\ last_state[b] = 1]
       IN  /\ fw_time' = fw_time + e
           /\ last_state' = [b \in FwButtons |-> r[b].last_state]
           /\ last_time_ms' = [b \in FwButtons |-> r[b].last_time_ms]
           /\ scan_obs' =
                 [emit_at |-> [b \in FwButtons |->
                                  IF r[b].emit THEN <<fw_time + e>>
                                  ELSE scan_obs.emit_at[b]],
                  dropped |-> [b \in FwButtons |->
                                  IF pin[b] = 1 THEN FALSE
                                  ELSE IF edge[b] /\ ~r[b].emit THEN TRUE
                                  ELSE scan_obs.dropped[b]],
                  fell |-> [b \in FwButtons |->
                               IF r[b].emit THEN FALSE ELSE scan_obs.fell[b]],
                  idle_seen |-> [b \in FwButtons |->
                                    IF pin[b] = 1 THEN TRUE
                                    ELSE IF r[b].emit THEN FALSE
                                    ELSE scan_obs.idle_seen[b]],
                  wrote |-> {b \in FwButtons : r[b].emit},
                  scans |-> scan_obs.scans + 1,
                  idles |-> scan_obs.idles]
    /\ UNCHANGED <<firmware, pin>>
    /\ UNCHANGED <<daemonVars, ipcVars, connVars, cfgVars, resolveVars,
                   cmdVars, blinkVars, cycleVars, lateVars>>

\* LongIdle ms of passes in which no pin differs from its last sample
Idle ==
    /\ scan_obs.idles < MaxIdles
    /\ \A b \in FwButtons : pin[b] = last_state[b]
    /\ fw_time' = fw_time + LongIdle
    /\ scan_obs' = [scan_obs EXCEPT !.idles = @ + 1, !.wrote = {}]
    /\ UNCHANGED <<firmware, pin, last_state, last_time_ms>>
    /\ UNCHANGED <<daemonVars, ipcVars, connVars, cfgVars, resolveVars,
                   cmdVars, blinkVars, cycleVars, lateVars>>

\* a button is pressed or released, or its contact bounces
PinChange(b) ==
    /\ pin' = [pin EXCEPT ![b] = 1 - @]
    /\ scan_obs' = [scan_obs EXCEPT !.fell[b] = (@ \/ pin[b] = 1)]
    /\ UNCHANGED <<firmware, last_state, last_time_ms, fw_time>>
    /\ UNCHANGED <<daemonVars, ipcVars, connVars, cfgVars, resolveVars,
                   cmdVars, blinkVars, cycleVars, lateVars>>

\* power-up with either firmware file, any button held or not
ScanInit ==
    /\ DaemonInit /\ ChannelInit /\ ConnInit /\ ResolverIdle /\ LedInit
    /\ CycleInit /\ LateInit
    /\ firmware \in {"main", "watchdog"}
    /\ pin \in [FwButtons -> {0, 1}]
    /\ ScanState
    /\ scan_obs = [NoScanYet EXCEPT !.fell = [b \in FwButtons |-> pin[b] = 0]]

NextFirmware ==
    \/ \E e \in ScanSteps(firmware) : Scan(e)
    \/ Idle
    \/ \E b \in FwButtons : PinChange(b)

SpecFirmware == ScanInit /\ [][NextFirmware]_vars

(***************************************************************************)
(* Pico firmware, host commands (pico_firmware/main.py:70-96).             *)
(***************************************************************************)
\* line.startswith(prefix)
StartsWith(t, prefix) ==
    Len(t) >= Len(prefix) /\ SubSeq(t, 1, Len(prefix)) = prefix

\* t.split(c, 1): <<t>> without a c in t
SplitOnce(t, c) ==
    IF \E k \in 1..Len(t) : t[k] = c
    THEN LET k == CHOOSE i \in 1..Len(t) :
                     t[i] = c /\ \A j \in 1..(i - 1) : t[j] # c
         IN  <<SubSeq(t, 1, k - 1), SubSeq(t, k + 1, Len(t))>>
    ELSE <<t>>

\* t.split(",", 2)
SplitTwice(t) ==
    LET a == SplitOnce(t, ",")
    IN  IF Len(a) = 1 THEN a ELSE <<a[1]>> \o SplitOnce(a[2], ",")

\* int(s): white space at both ends is skipped
ParsesInt(t) == IsInt(Strip(t))
IntOf(t) == IntVal(Strip(t))

\* lines 80-83, state 2 forcing the LED off instead of clearing the override
OverrideForNoClear(state) == IF state = 1 THEN "On" ELSE "Off"
\* lines 80-83: the override a state stands for
OverrideFor(state) ==
    IF state = 2 THEN "None" ELSE IF state = 1 THEN "On" ELSE "Off"

\* _handle_line: the override table and the output after the line
handle_line(overrides, line) ==
    LET t == Strip(line)                               \* line 71
        parts == SplitTwice(t)                         \* line 76
        ignored == [overrides |-> overrides, out |-> "none"]
    IN  IF t = <<>> THEN ignored                       \* lines 72-73
        ELSE IF StartsWith(t, <<"L", ",">>)            \* line 74
        THEN IF /\ Len(parts) = 3                      \* ValueError: line 84
                /\ ParsesInt(parts[2])
                /\ ParsesInt(parts[3])
                /\ IntOf(parts[2]) \in DOMAIN overrides    \* line 79
             THEN [overrides |->
                      [overrides EXCEPT ![IntOf(parts[2])] =
                                            OverrideFor(IntOf(parts[3]))],
                   out |-> "none"]
             ELSE ignored
        ELSE IF t = <<"Q">>                            \* line 86
        THEN [overrides |-> overrides, out |-> "snapshot"]
        ELSE ignored

\* the lines the host sends: L commands with these id and state fields,
\* with and without a newline, and other lines
IdFields == {<<"1">>, <<"7">>, <<"2">>, <<"1", "6">>, <<" ", "1">>,
             <<"x">>, <<>>}
StateFields == {<<"0">>, <<"1">>, <<"2">>, <<"3">>, <<"-", "1">>,
                <<"1", " ">>, <<"x">>, <<>>, <<"0", ",", "1">>}
OtherLines == {<<"\n">>, <<"Q", "\n">>, <<" ", "Q", " ", "\n">>,
               <<"Q", "Q", "\n">>, <<"q", "\n">>, <<"L", "\n">>,
               <<"L", ",", "1", "\n">>, <<"l", ",", "1", ",", "1", "\n">>,
               <<"P", ",", "1", "\n">>, <<"x", "\n">>}
HostLines ==
    {<<"L", ",">> \o i \o <<",">> \o st \o <<"\n">> :
        i \in IdFields, st \in StateFields} \cup OtherLines

\* _read_host_commands hands one line to _handle_line
HandleLine(line) ==
    /\ LET r == handle_line(led_overrides, line)
       IN  /\ led_overrides' = r.overrides
           /\ fw_out' = r.out
    /\ host_line' = <<line>>
    /\ UNCHANGED <<daemonVars, ipcVars, connVars, cfgVars, resolveVars,
                   scanVars, blinkVars, cycleVars, lateVars>>

NextHostLine == \E line \in HostLines : HandleLine(line)

SpecHostLine == Init /\ [][NextHostLine]_vars

(***************************************************************************)
(* Pico firmware, the blink thread (pico_firmware/main.py:51-67).  It runs *)
(* on its own beside the main loop, so the command handler can change an   *)
(* override between any two of its steps.                                  *)
(***************************************************************************)
blinkFrame == <<daemonVars, ipcVars, connVars, cfgVars, resolveVars, scanVars,
                cycleVars, lateVars>>

\* line 63: pin.value(1 if override else 0)
LevelOf(o) == IF o = "On" THEN 1 ELSE 0

\* lines 54-55: the for loop takes the next LED and reads its override;
\* the order of leds.items() is not fixed
BlinkRead ==
    /\ blink_pc = "for"
    /\ \E b \in blink_todo :
          /\ blink_btn' = b
          /\ blink_todo' = blink_todo \ {b}
          /\ override' = led_overrides[b]
    /\ blink_pc' = "drive"
    /\ UNCHANGED <<leds, cmdVars, blinkFrame>>

\* lines 56-63 with a forced-off override left to the LED's last level
BlinkDriveSkipsOff ==
    /\ blink_pc = "drive"
    /\ \/ /\ override = "None"
          /\ \/ leds' = [leds EXCEPT ![blink_btn] = 1] /\ blink_pc' = "twinkle"
             \/ UNCHANGED leds /\ blink_pc' = "for"
       \/ /\ override = "On"
          /\ leds' = [leds EXCEPT ![blink_btn] = 1]
          /\ blink_pc' = "for"
       \/ /\ override = "Off"
          /\ UNCHANGED leds
          /\ blink_pc' = "for"
    /\ UNCHANGED <<blink_todo, blink_btn, override, cmdVars, blinkFrame>>

\* lines 56-63: without an override the LED may start a twinkle (one draw in
\* 64); with one the pin is driven to the forced level
BlinkDrive ==
    /\ blink_pc = "drive"
    /\ \/ /\ override = "None"
          /\ \/ leds' = [leds EXCEPT ![blink_btn] = 1] /\ blink_pc' = "twinkle"
             \/ UNCHANGED leds /\ blink_pc' = "for"
       \/ /\ override # "None"
          /\ leds' = [leds EXCEPT ![blink_btn] = LevelOf(override)]
          /\ blink_pc' = "for"
    /\ UNCHANGED <<blink_todo, blink_btn, override, cmdVars, blinkFrame>>

\* lines 60-61: the twinkle ends after 20..51 ms
BlinkTwinkleEnd ==
    /\ blink_pc = "twinkle"
    /\ leds' = [leds EXCEPT ![blink_btn] = 0]
    /\ blink_pc' = "for"
    /\ UNCHANGED <<blink_todo, blink_btn, override, cmdVars, blinkFrame>>

\* line 64: the tick ends, the next one visits every LED again
BlinkSleep ==
    /\ blink_pc = "for"
    /\ blink_todo = {}
    /\ blink_todo' = LedButtons
    /\ UNCHANGED <<leds, blink_pc, blink_btn, override, cmdVars, blinkFrame>>

Blink == BlinkRead \/ BlinkDrive \/ BlinkTwinkleEnd \/ BlinkSleep

\* the host's LED commands, as led_daemon.py writes them
LedCommands ==
    {<<"L", ",">> \o Decimal(b) \o <<",">> \o Decimal(st) \o <<"\n">> :
        b \in LedButtons, st \in {0, 1, 2}}

HostCommand == \E line \in LedCommands : HandleLine(line)

NextBlink == Blink \/ HostCommand

SpecBlink == Init /\ [][NextBlink]_vars

\* the thread is never blocked: every wait of it is a sleep that ends
SpecBlinkFair == SpecBlink /\ WF_vars(Blink)

(***************************************************************************)
(* Properties of the trigger daemon                                        *)
(***************************************************************************)
EmitsStop == Len(emitted') > Len(emitted) /\ emitted'[Len(emitted')] = 0
EmitsPress == Len(emitted') > Len(emitted) /\ emitted'[Len(emitted')] # 0
ReadsLine(b) == \E d \in {0} \cup FineSteps : ReadLine(b, d, ClockPresses, ClockTicks)

\* C1: at most one audio-player child process spawned by the daemon is
\* running at any instant, whatever the outcomes of the file check, the
\* device check and the spawn of each press.
AtMostOnePlayer == Cardinality(RunningProcs) <= 1

\* C2: a player process is spawned only when every player process that was
\* running when the press was accepted has exited: 'A exited' precedes
\* 'B spawned'.
TerminateBeforeSpawn ==
    [][\A p \in Procs :
          (proc[p] = "unborn" /\ proc'[p] = "running")
              => \A q \in Procs \ {p} : proc[q] # "running"]_vars

\* C3: when the handling of an accepted, mapped press is over, the process
\* the handle held when the press arrived is no longer running, whatever the
\* result of the press.
CancelsInFlight ==
    [][(pc = "notify" /\ pc' = "read" /\ old # None)
          => proc'[old] # "running"]_vars

\* C4: with T the time of the last accepted press of a button, a P line of
\* that button at a time in (T, T + 200 ms) is rejected, one at a time
\* >= T + 200 ms is accepted and recorded, and the Debounce Table changes
\* only on acceptance.
HostDebounce ==
    [][\A b \in Buttons :
          (ReadsLine(b) /\ b \in DOMAIN accepted_ts) =>
              LET T == accepted_ts[b]
                  ts == now'
              IN  /\ (T < ts /\ ts < T + debounce_ms)
                        => (verdict' = "debounced" /\ accepted_ts' = accepted_ts)
                  /\ (ts >= T + debounce_ms)
                        => (verdict' # "debounced" /\ accepted_ts'[b] = ts
                            /\ last_press_ts'[b] = ts)
                  /\ (last_press_ts' # last_press_ts) => verdict' # "debounced"]_vars

\* C4 witness: a press rejected 199 ms after the accepted press of its button
HostDebounceWitness ==
    /\ verdict = "debounced"
    /\ line_btn \in DOMAIN accepted_ts
    /\ now - accepted_ts[line_btn] = debounce_ms - 1

\* C5: a press rejected by the host debounce spawns nothing, terminates
\* nothing, emits nothing and leaves the Debounce Table and the Playback
\* Handle as they were.
RejectedPressNoEffect ==
    [][\A b \in Buttons :
          (ReadsLine(b) /\ verdict' = "debounced")
              => UNCHANGED <<proc, current_process, current_button, emitted,
                             last_press_ts, pc, npress>>]_vars

\* C5 witness: a press was rejected while the tracked player is running
RejectedWhilePlaying ==
    /\ verdict = "debounced"
    /\ pc = "read"
    /\ Running(current_process)

\* C6: the completion of the tracked process is signalled exactly once:
\* never twice, and once the tracker holds the id of the exited process (the
\* state in which the watcher emits nothing more, however often it polls) one
\* stop has been emitted for it.
ExactlyOneStop ==
    TrackedDone(current_process, proc) =>
        /\ completionStops <= 1
        /\ (last_signaled_process_id = IdOf(current_process))
              => completionStops = 1

\* C7: the watcher emits a stop only when no player process is running.
NoStopWhilePlaying == [][EmitsStop => RunningProcs = {}]_vars

\* C8: the press notification carries the id of the accepted button and is
\* emitted before the player process of that press has been spawned.
PressNotifiedBeforeSpawn ==
    [][EmitsPress => (emitted'[Len(emitted')] = btn_id /\ process = None)]_vars

\* C9: a press of a button without mapping spawns nothing, emits nothing,
\* leaves the handle and the running playback alone, and the daemon is back
\* at the read loop.
UnmappedPressDropped ==
    [][\A b \in Buttons :
          (ReadsLine(b) /\ verdict' = "unmapped")
              => (UNCHANGED <<proc, current_process, current_button, emitted>>
                  /\ pc' = "read")]_vars

\* C9 witness: an unmapped press was read while the tracked player is running
UnmappedWhilePlaying ==
    /\ verdict = "unmapped"
    /\ pc = "read"
    /\ Running(current_process)

(***************************************************************************)
(* Properties of the Event Channel                                         *)
(***************************************************************************)
Delivered == {delivered[k] : k \in 1..Len(delivered)}

MainNeverStalls ==
    Len(emitted) < MaxMsgs => \A v \in Notifications : ENABLED Emit(v)

\* C11 witness: a notification was emitted after one whose writer thread is
\* blocked in open(), waiting for a reader or orphaned by the unlink
EmittedPastBlockedWriter ==
    \E i \in Msgs : wst[i] \in {"waiting", "stuck"} /\ i < Len(wst)

\* C12: the LED daemon reads the notifications in the order in which the
\* trigger daemon emitted them.
DeliveredInEmissionOrder ==
    \A k1, k2 \in 1..Len(delivered) :
        k1 < k2 => delivered[k1] < delivered[k2]

(***************************************************************************)
(* Properties of the LED daemon                                            *)
(***************************************************************************)
\* the step reads the line that led_line holds after it
ReadsMalformed ==
    /\ led_line' \in Lines
    /\ ~IsInt(Strip(led_line'))
    /\ \A k \in 1..Len(led_line') : led_line'[k] # BadByte
    /\ LedReadLine(led_line')
ReadsEndOfFile == LedReadLine(EndOfFile)
OpensAbsent == LedOpen /\ fifo = "absent"

\* C13: the LED daemon starts Idle and, after any sequence of lines, is
\* Active exactly when the last valid integer line it read is non-zero.
ActiveIffLastNonZero ==
    led_pc # "down" =>
        (led_state = "flashing" <=> (led_last # <<>> /\ led_last[1] # 0))

\* C13 witness: the control thread is still in the flashing loop of an
\* Active daemon when a stop line has made the daemon Idle, and a malformed
\* line was read after it
IdleAfterStop ==
    /\ led_pc = "read"
    /\ ctl_pc \in {"on", "off"}
    /\ led_state = "idle"
    /\ led_last = <<0>>
    /\ ~IsInt(Strip(led_line)) /\ led_line # <<>>

\* C14: a press read while the daemon is Active restarts the flashing: the
\* first output of the control thread after that press is the on-level.
PressRestartsFlashing ==
    [][(press_pending /\ ~press_pending' /\ ctl_pc' # "down"
          /\ led_state' = "flashing")
         => led_out' = "on"]_vars

\* C15: a malformed line, the end of file and an absent FIFO path leave the
\* LED state as it was and the daemon in its event loop: reading on, or on
\* its way to open the FIFO again.
BadInputTolerated ==
    [][/\ ReadsMalformed => (led_state' = led_state /\ led_pc' = "read")
       /\ ReadsEndOfFile => (led_state' = led_state /\ led_pc' = "eof")
       /\ OpensAbsent => (led_state' = led_state /\ led_pc' = "reopen")
       /\ (led_pc = "eof")
            => (led_pc' \in {"eof", "reopen", "down"}
                /\ (led_pc' # "down" => led_state' = led_state))]_vars

\* C15 witness: the daemon has read a press, then the end of file, and is
\* back at the open, still Active
ReopensWhileActive ==
    /\ led_pc = "reopen"
    /\ led_state = "flashing"
    /\ led_line = EndOfFile
    /\ led_last # <<>>

RECURSIVE Pow(_, _)
Pow(a, n) == IF n = 0 THEN 1 ELSE a * Pow(a, n - 1)

\* min(0.5 * 1.5^(n-1), 5.0) seconds, in 1/64 s
ClaimedDelay(n) == Min((BackoffStart * Pow(3, n - 1)) \div Pow(2, n - 1),
                       BackoffCap)

\* C16: the sleep before the n-th consecutive retry after connect failures
\* (port not found or open failed) lasts min(0.5 * 1.5^(n-1), 5.0) seconds.
BackoffAsClaimed ==
    (pc \in {"notfound_sleep", "end_sleep"} /\ fails >= 1)
        => sleep_for = ClaimedDelay(fails)

Reconnects ==
    /\ [](sleeps_since_ok <= 1)
    /\ [](dev = "ok" => <>(pc \notin ConnPcs \/ dev # "ok"))
    /\ [][(pc \in ConnPcs) =>
            (/\ pc' \in ConnPcs \cup {"read"}
             /\ UNCHANGED <<npress, accepted_ts, emitted, last_press_ts,
                            current_process, current_button>>)]_vars

\* a press was accepted, the connection was lost, one sleep ended with the
\* device back, the port was reopened and a later press was accepted
PressAfterReconnect ==
    /\ lost_at # <<>>
    /\ lost_at[1] >= 1
    /\ npress > lost_at[1]
    /\ sleeps_since_ok = 1
    /\ Len(accepted_ts) >= 2
    /\ pc = "read"

\* C19: when main has returned after SIGINT or SIGTERM, no player spawned by
\* the daemon is running.
ShutdownStopsPlayback == pc = "done" => RunningProcs = {}

\* the tables build_button_map yields for the files
CompleteTables == {build_button_map(c) : c \in ConfigFiles}

\* C20: every mapping lookup of the main loop is made with no reload in
\* progress, on a table built completely from one file, and the press is
\* accepted exactly if that table maps the button.
LookupSeesCompleteTable ==
    [][(ReadLine(line_btn', 0, MaxPresses, 0)
           /\ verdict' \in {"accepted", "unmapped"}) =>
          (/\ cfg_pc = "watch"
           /\ current_button_to_wav \in CompleteTables
           /\ verdict' = "accepted"
                 <=> line_btn' \in DOMAIN current_button_to_wav)]_vars

\* the edited table was swapped in and a press of button 3, which only the
\* edited file maps, was accepted
AcceptedFromNewTable ==
    /\ current_button_to_wav = build_button_map(EditedButtons)
    /\ verdict = "accepted"
    /\ line_btn = 3
    /\ pc = "checks"

\* the by-id entries that exist, and those of them that look like the Pico
LiveById == fs.by_live
LivePico == {n \in fs.by_live : PicoLike(n)}

\* C21: resolve_serial_port returns the preferred path if it exists; else an
\* existing by-id entry, a Pico or RP2040 entry before every other; else the
\* first ttyACM device in sorted order; else None.
ResolvesInOrder ==
    resolved # NotCalled =>
        /\ fs.preferred = "yes" => resolved.kind = "preferred"
        /\ (fs.preferred # "yes" /\ LiveById # {}) =>
              /\ resolved.kind = "by-id"
              /\ resolved.name \in LiveById
              /\ LivePico # {} => resolved.name \in LivePico
        /\ (fs.preferred # "yes" /\ LiveById = {} /\ fs.acm_live # {}) =>
              /\ resolved.kind = "acm"
              /\ resolved.name \in fs.acm_live
              /\ \A n \in fs.acm_live \ {resolved.name} :
                    StrLess(resolved.name, n)
        /\ (fs.preferred # "yes" /\ LiveById = {} /\ fs.acm_live = {}) =>
              resolved.kind = "none"

\* a Pico entry was chosen although another live entry sorts before it
PicoChosenOverEarlier ==
    /\ resolved.kind = "by-id"
    /\ PicoLike(resolved.name)
    /\ \E n \in LiveById : ~PicoLike(n) /\ StrLess(n, resolved.name)
    /\ fs.by_dead # {}

\* the pass just made wrote a P line for button b
WritesP(b) == scan_obs'.scans > scan_obs.scans /\ b \in scan_obs'.wrote

\* C22: two P lines for one button are at least DEBOUNCE_MS apart, and no P
\* line is written for a falling edge that was sampled inside the debounce
\* window, however long the button stays down.
FirmwareDebounce ==
    [][\A b \in FwButtons : WritesP(b) =>
          /\ ~scan_obs.dropped[b]
          /\ scan_obs.emit_at[b] # <<>> =>
                fw_time' - scan_obs.emit_at[b][1] >= DebounceOf(firmware)]_vars

\* button 1 is still held after an edge dropped inside the window, and the
\* window of its last P line has passed
HeldPastWindow ==
    /\ scan_obs.dropped[1]
    /\ pin[1] = 0
    /\ scan_obs.emit_at[1] # <<>>
    /\ fw_time - scan_obs.emit_at[1][1] > DebounceOf(firmware)
    /\ scan_obs.wrote = {}

\* C23: a P line is written only for a falling edge of the pin that no
\* earlier P line answered, and between two P lines of one button a pass
\* sampled the pin inactive.
OnePressPerEdge ==
    [][\A b \in FwButtons : WritesP(b) =>
          /\ scan_obs.fell[b]
          /\ scan_obs.emit_at[b] # <<>> => scan_obs.idle_seen[b]]_vars

\* button 1 has been held since its P line, through passes made after the
\* end of the debounce window
HeldSincePress ==
    /\ pin[1] = 0
    /\ scan_obs.emit_at[1] # <<>>
    /\ ~scan_obs.fell[1]
    /\ ~scan_obs.dropped[1]
    /\ fw_time - scan_obs.emit_at[1][1] > 2 * DebounceOf(firmware)
    /\ scan_obs.wrote = {}

\* "L,<id>,<state>\n"
LCommand(b, st) ==
    <<"L", ",">> \o Decimal(b) \o <<",">> \o Decimal(st) \o <<"\n">>

\* the step handles the line l
Handles(l) == host_line' = <<l>> /\ HandleLine(l)

\* C24: no override is set at the start; L,id,1 / L,id,0 / L,id,2 for an LED
\* button sets its override to On / Off / None and no other; an L command
\* for a button without an LED changes nothing.
LedCommandSets ==
    /\ led_overrides = [b \in LedButtons |-> "None"]
    /\ [][\A b \in {1, 2, 7, 16}, st \in {0, 1, 2} :
            Handles(LCommand(b, st)) =>
               led_overrides' =
                  IF b \in LedButtons
                  THEN [led_overrides EXCEPT
                           ![b] = IF st = 1 THEN "On"
                                  ELSE IF st = 0 THEN "Off" ELSE "None"]
                  ELSE led_overrides]_vars

\* the override of button 7 was cleared while that of button 1 stays forced
ClearedOneOfTwo ==
    /\ host_line = <<LCommand(7, 2)>>
    /\ led_overrides[7] = "None"
    /\ led_overrides[1] = "On"

\* the line is Q, or an L command for an LED button with a state of 0, 1 or 2
Recognized(l) ==
    LET t == Strip(l)
        parts == SplitTwice(t)
    IN  \/ t = <<"Q">>
        \/ /\ StartsWith(t, <<"L", ",">>)
           /\ Len(parts) = 3
           /\ ParsesInt(parts[2]) /\ IntOf(parts[2]) \in LedButtons
           /\ ParsesInt(parts[3]) /\ IntOf(parts[3]) \in {0, 1, 2}

\* C25: a line that is neither Q nor an L command for an LED button with a
\* state of 0, 1 or 2 leaves the override table unchanged and writes nothing.
UnrecognizedIgnored ==
    [][(host_line' # <<>> /\ HandleLine(host_line'[1])
           /\ ~Recognized(host_line'[1]))
          => (led_overrides' = led_overrides /\ fw_out' = "none")]_vars

\* if the override of b stays at o from some point on, the LED of b is at
\* the level from some point on
ForcedHolds(b, o, level) ==
    <>[](led_overrides[b] = o) => <>[](leds[b] = level)

\* C26: a tick that finds a forced override drives the LED to that level, and
\* once an override is Forced-On (Forced-Off) for good the LED ends up on
\* (off) and stays there, however handler and blink thread interleave.
ForcedLevelHeld ==
    /\ [][(blink_pc = "drive" /\ override # "None" /\ blink_pc' # "drive")
             => leds'[blink_btn] = LevelOf(override)]_vars
    /\ ForcedHolds(1, "On", 1) /\ ForcedHolds(1, "Off", 0)
    /\ ForcedHolds(7, "On", 1) /\ ForcedHolds(7, "Off", 0)

\* the thread has driven LED 1 off on a forced-off override that was set
\* while the LED was forced on
ForcedOffDriven ==
    /\ host_line = <<<<"L", ",", "1", ",", "0", "\n">>>>
    /\ led_overrides[1] = "Off"
    /\ led_overrides[7] = "On" /\ leds[7] = 1
    /\ blink_pc = "for" /\ blink_btn = 1 /\ override = "Off"
    /\ leds[1] = 0

\* C27: once a press has passed the debounce test and has been recorded, no
\* entry of the debounce table is older than 60 s.
PrunedAfterAcceptance ==
    verdict \in {"accepted", "unmapped"} =>
       \A k \in DOMAIN last_press_ts : now - last_press_ts[k] <= PruneAgeMs

\* C28: a notification emitted after the LED daemon was started again, with
\* no exit of the LED daemon since, is not lost: its writer neither finds
\* the channel missing nor writes anywhere but into the FIFO.
SurvivesRestart ==
    \A i \in cycle.flagged :
       wst[i] \notin {"discarded", "infile", "lost", "stuck"}

\* Popen raised, or the player is gone at the start check
SpawnFails ==
    \/ pc = "spawn" /\ pc' = "assign"
    \/ pc = "startcheck" /\ pc' # pc /\ proc[process] # "running"

\* C29: when Popen raises or the player has exited at the start check,
\* play_wav_interruptible returns None, main stores it in the playback
\* handle, sends the notification and is back at the read of the next line.
SpawnFailureNotFatal ==
    [][/\ SpawnFails => (ret' = None /\ pc' = "assign")
       /\ (pc = "assign" /\ pc' # pc /\ ret = None)
             => (current_process' = None /\ pc' = "notify")
       /\ (pc = "notify" /\ pc' # pc)
             => (pc' = "read" /\ current_process' = current_process)]_vars

\* the only player started so far exited within the start check, the handle
\* is null and a later line has been read
ReadOnAfterFailedStart ==
    /\ pc = "read" /\ ~stop
    /\ npress = 1 /\ proc[1] = "exited"
    /\ current_process = None
    /\ emitted = <<1>>
    /\ verdict = "unmapped"

\* C30: main leaves its loops only with the stop flag set, and a step that
\* ends the handling of a line or a press with the flag clear leaves main
\* inside its loops.
ExitsOnlyOnStop ==
    /\ pc = "done" => stop
    /\ (~stop /\ lost_at # <<>>) => pc # "done"

\* main has returned after a signal, having accepted a press after the
\* serial read had failed
ExitedAfterRecovery ==
    /\ pc = "done" /\ stop
    /\ lost_at # <<>> /\ npress > lost_at[1]
    /\ current_port = "acm"

\* t without the white space at its end
RECURSIVE TrimEnd(_)
TrimEnd(t) ==
    IF t # <<>> /\ t[Len(t)] \in RegexSpace
    THEN TrimEnd(SubSeq(t, 1, Len(t) - 1)) ELSE t

\* "P," and one or two digits, then white space only
IsPressLine(line) ==
    LET t == TrimEnd(line)
    IN  /\ Len(t) \in {3, 4}
        /\ t[1] = "P" /\ t[2] = ","
        /\ \A i \in 3..Len(t) : IsDigit(t[i])

\* "P," and a numeral of one or two digits for k, then white space only
IsPressLineFor(line, k) ==
    \/ TrimEnd(line) = <<"P", ",">> \o Decimal(k)
    \/ k < 10 /\ TrimEnd(line) = <<"P", ",", "0">> \o Decimal(k)

\* C31: a line read from the serial port goes to the debounce test as a
\* press of button k iff it is "P,", one or two digits that denote k, and
\* optional white space; any other line changes nothing of the daemon.
PressLinesOnly ==
    [][\A raw \in SerialLines :
          (ser_line' = <<decode(raw)>> /\ SerialLine(raw)) =>
             IF IsPressLine(ser_line'[1])
             THEN /\ IsPressLineFor(ser_line'[1], line_btn')
                  /\ verdict' \in {"debounced", "unmapped", "accepted"}
                  /\ verdict' # "debounced"
                        => Get(last_press_ts', line_btn', 0) = now'
             ELSE UNCHANGED daemonVars]_vars

\* a P line that ends in CR LF was read and accepted as a press of button 2
PressLineAccepted ==
    /\ ser_line = <<<<"P", ",", "2", "\r", "\n">>>>
    /\ line_btn = 2 /\ verdict = "accepted" /\ pc = "checks"

\* C37: the value handed to the Event Channel for a press is never 0, for
\* every line the press pattern accepts and every mapping table
\* build_button_map can produce.
PressNeverZero == [][Notify => emitted'[Len(emitted')] # 0]_vars

\* C39: a line is handled as a press of button k only if the firmware has
\* written a complete line "P,k": a read that returns at its timeout in the
\* middle of a line is not handled as a press of another button.
PressOnlyIfSent ==
    [][(SerialRead /\ PressMatch(ser_line'[1]))
          => \E i \in DOMAIN sent : sent[i] = line_btn']_vars

\* C32: the WAV path and the audio device a player is spawned with were
\* read from the same load of the configuration, whatever reload_config
\* does beside the press.
SameConfigVersion ==
    [][(\E ok \in BOOLEAN, i \in 0..MaxPresses : Spawn(ok, i))
          => wav_from = device_from]_vars

\* C33: a reload that fails (file unreadable, invalid JSON, active profile
\* missing) leaves the configuration, the device configuration and the
\* mapping table as they were and releases the config lock: the lock is
\* free whenever the watcher is outside the with-block.
FailedReloadHarmless ==
    /\ [][(\E o \in LoadOutcomes \ {"ok"}, c \in ConfigFiles : ReloadLoad(o, c))
            => /\ UNCHANGED <<current_config, current_button_to_wav>>
               /\ config_lock' = "free"]_vars
    /\ [](cfg_pc \in {"watch", "failed"} => config_lock = "free")
    /\ [][cfg_pc = "failed"
            => UNCHANGED <<current_config, current_button_to_wav>>]_vars

\* after a reload that succeeded and one that failed, a press of button 3,
\* mapped by the first, is accepted
PressAfterFailedReload ==
    /\ cfg_pc = "failed"
    /\ current_config = 1
    /\ pc = "checks" /\ verdict = "accepted" /\ line_btn = 3

\* C34: pruning never changes a debounce decision: whatever button is
\* pressed next and whenever, the test of line 414 on the pruned table
\* gives what it gives on the table that was never pruned.
PruningKeepsDecisions ==
    \A b \in TableButtons, d \in {0} \cup LongSteps :
        Debounced(Get(last_press_ts, b, 0), now + d)
           <=> Debounced(Get(accepted_ts, b, 0), now + d)

\* button 10 was pruned from a table of 21 entries and pressed again
PrunedButtonPressed ==
    /\ Cardinality(DOMAIN accepted_ts) > PruneThreshold
    /\ 11 \notin DOMAIN last_press_ts
    /\ line_btn = 10 /\ verdict = "unmapped"
    /\ last_press_ts[10] = now /\ now > Now0 + PruneAgeMs

\* C35: every press notification is eventually followed by a stop
\* notification: whenever the last notification emitted is a press, a stop
\* is emitted later, whether the player started, failed to start or was
\* never spawned.
PressThenStop ==
    (emitted # <<>> /\ emitted[Len(emitted)] # 0)
        ~> (emitted # <<>> /\ emitted[Len(emitted)] = 0)

\* LEDController.state after the LED daemon, started Idle, has read the
\* lines of the notifications seq in this order
RECURSIVE LedAfter(_, _)
LedAfter(state, seq) ==
    IF seq = <<>> THEN state
    ELSE LedAfter(LedHandleLine(state, FormatLine(Head(seq))), Tail(seq))

\* C36: when a press has interrupted a playing process and its own player
\* runs on, the LED daemon is Active once it has read every notification
\* emitted so far: no stop for the interrupted process comes after the
\* press notification.
ActiveAfterInterrupt ==
    (pc = "read" /\ Running(current_process))
        => LedAfter("idle", emitted) = "flashing"

\* C38: in the firmware a falling edge sampled at least DEBOUNCE_MS after
\* the last accepted edge of the same button is accepted and writes a P
\* line, whatever the time between the two: exactly DEBOUNCE_MS, or an idle
\* period over which the tick counter wraps.
AcceptsAfterDebounce ==
    [][\A e \in ScanSteps(firmware), b \in FwButtons :
          (/\ Scan(e)
           /\ pin[b] = 0 /\ last_state[b] = 1
           /\ scan_obs.emit_at[b] # <<>>
           /\ (fw_time + e) - scan_obs.emit_at[b][1] >= DebounceOf(firmware))
             => b \in scan_obs'.wrote]_vars
====
